---- MODULE Spec2Model ----
(***************************************************************************)
(* Flex Living reviews dashboard: the approval stores (in-memory,          *)
(* file-backed cache, client-local storage), the request handlers that     *)
(* use them and the review normalization they feed.                        *)
(*                                                                         *)
(* Three specifications, one per deployment of the approval state:         *)
(*   Spec       the server process: src/lib/approval-store.ts, the         *)
(*              POST/GET approve route, the GET hostaway route and the     *)
(*              public property page;                                      *)
(*   SpecFile   the file-backed cache (getApprovalData/saveApprovalData);  *)
(*   SpecLocal  the client-local store (localStorage).                     *)
(* SpecStore puts the exported store functions under any caller.  The      *)
(* review utilities and the dashboard have their own specifications:       *)
(*   SpecReview, SpecBatch, SpecFilter, SpecPerf                           *)
(*              normalizeReview, normalizeHostawayResponse, filterReviews  *)
(*              and calculatePropertyPerformance;                          *)
(*   SpecView   DashboardPage's filtered and sorted view;                  *)
(*   SpecCard   the review cards and their approval requests.              *)
(***************************************************************************)
EXTENDS Integers, Sequences, FiniteSets, TLC

VARIABLES
    store,        \* approval-store.ts `store`: [approvedReviewIds (a Set object), lastUpdated, initialized]
    heap,         \* the Set objects: reference -> contents in insertion order
    held,         \* the Set a caller got from getApprovedIdsSet(), or NULL
    normalized,   \* the reviews that caller normalized with the Set it holds
    pc,           \* each POST /api/reviews/approve request: "idle" or "awaitJson"
    out,          \* what the most recent handler or store call returned
    lastSet,      \* history: per review ID, the approved value of its latest setReviewApproval
    \* the file-backed cache
    approvalCache,  \* `approvalCache`: Nothing (null) or an ApprovalData
    file,           \* what STORAGE_FILE_PATH holds: Missing or an ApprovalData
    fcall,          \* each call of getApprovalData / saveApprovalData in flight
    fout,           \* what the most recent call to return returned
    lastSaved,      \* history: the data of the latest saveApprovalData call, or Nothing
    \* the client-local store
    isBrowser,      \* whether `window` is defined where the functions run
    localStorage,   \* the item under STORAGE_KEY: Nothing or the stored object
    lout,           \* what the most recent call returned
    toggled,        \* history: per review ID, the approved value of its latest toggleReviewApproval
    \* review-utils under its callers
    envelope,       \* the HostawayApiResponse the provider has answered with so far
    nout,           \* what the most recent normalizer call returned
    dashReviews,    \* the dashboard's `reviews` state: the canonical reviews it shows
    perf,           \* the dashboard's propertyPerformance entry of the target property
    dashFilters,    \* the dashboard's `filters` state
    dashSort,       \* the dashboard's `sort` state: [field, order]
    selectedPropertyId,   \* the dashboard's `selectedPropertyId` state: NULL or a property ID
    dashFilteredReviews,  \* the dashboard's `filteredReviews` memo: the view it renders
    \* the review cards of the dashboard
    cards,          \* per review ID, its card's state: [isApproved, isUpdating]
    cardRequests,   \* per review ID, the POST requests of its card in flight: the `checked` of each
    cardDone        \* history: the handleApprovalToggle run that finished last

memVars == <<store, heap, held, normalized, pc, out, lastSet>>

fileVars == <<approvalCache, file, fcall, fout, lastSaved>>

localVars == <<isBrowser, localStorage, lout, toggled>>

viewVars == <<dashFilters, dashSort, selectedPropertyId, dashFilteredReviews>>

cardVars == <<cards, cardRequests, cardDone>>

utilVars == <<envelope, nout, dashReviews, perf, viewVars, cardVars>>

vars == <<memVars, fileVars, localVars, utilVars>>

NULL == "<null>"
UNDEFINED == "<undefined>"

(***************************************************************************)
(* Bounds of the model.                                                    *)
(***************************************************************************)
\* clock readings of new Date(): 2..MaxTime (0 is '', 1 the seed's stamp)
MaxTime == 3
\* POST requests that can be in flight together
NumRequests == 2
\* calls of the file-backed cache that can be in flight together
NumCalls == 2

Requests == 1..NumRequests

Calls == 1..NumCalls

(***************************************************************************)
(* Bundled data: src/data/approved-reviews.json and                        *)
(* src/data/mock-reviews.json are imported by the code and not part of     *)
(* the sources; a small fixture of the same shape stands for them.         *)
(***************************************************************************)
SeedApprovedIds == <<"10001">>
SeedLastUpdated == 1

\* the review IDs a request can carry
ReviewIds == {"10001", "10002"}

Range(s) == {s[i] : i \in 1..Len(s)}


(***************************************************************************)
(* A JavaScript Set<string>: its elements in insertion order, none twice.  *)
(***************************************************************************)
SetHas(s, x) == x \in Range(s)

SetAdd(s, x) == IF SetHas(s, x) THEN s ELSE Append(s, x)

SetDelete(s, x) == SelectSeq(s, LAMBDA y : y # x)

\* new Set(iterable): the iterable's elements, first occurrences only
RECURSIVE SetFrom(_)
SetFrom(xs) ==
    IF xs = <<>> THEN <<>>
    ELSE SetAdd(SetFrom(SubSeq(xs, 1, Len(xs) - 1)), xs[Len(xs)])

(***************************************************************************)
(* src/lib/approval-store.ts.  A store function takes the module state     *)
(* m = [store, heap] and returns the state it leaves and its result.       *)
(***************************************************************************)
Refs == {"initial", "seeded", "copy"}

Contents(m) == m.heap[m.store.approvedReviewIds]

\* faulty variant: seeds on every call, the `initialized` guard dropped
initializeStoreAlways(m) ==
    [store |-> [approvedReviewIds |-> "seeded",
                lastUpdated |-> SeedLastUpdated,
                initialized |-> TRUE],
     heap |-> [m.heap EXCEPT !["seeded"] = SetFrom(SeedApprovedIds)]]

initializeStore(m) ==
    IF ~m.store.initialized
    THEN [store |-> [approvedReviewIds |-> "seeded",
                     lastUpdated |-> SeedLastUpdated,
                     initialized |-> TRUE],
          heap |-> [m.heap EXCEPT !["seeded"] = SetFrom(SeedApprovedIds)]]
    ELSE m

getApprovedReviewIds(m) ==
    LET m1 == initializeStore(m)
    IN [m |-> m1, result |-> Contents(m1)]

getApprovalData(m) ==
    LET m1 == initializeStore(m)
    IN [m |-> m1,
        result |-> [approvedReviewIds |-> Contents(m1),
                    lastUpdated |-> m1.store.lastUpdated]]

isReviewApproved(m, reviewId) ==
    LET m1 == initializeStore(m)
    IN [m |-> m1, result |-> SetHas(Contents(m1), reviewId)]

\* faulty variant: approved = false leaves the ID in the Set
setReviewApprovalNoDelete(m, reviewId, approved, now) ==
    LET m1 == initializeStore(m)
        ref == m1.store.approvedReviewIds
    IN [store |-> [m1.store EXCEPT !.lastUpdated = now],
        heap |-> IF approved
                 THEN [m1.heap EXCEPT ![ref] = SetAdd(@, reviewId)]
                 ELSE m1.heap]

\* faulty variant: add() appends without the membership test of a Set
setReviewApprovalAppend(m, reviewId, approved, now) ==
    LET m1 == initializeStore(m)
        ref == m1.store.approvedReviewIds
    IN [store |-> [m1.store EXCEPT !.lastUpdated = now],
        heap |-> IF approved
                 THEN [m1.heap EXCEPT ![ref] = Append(@, reviewId)]
                 ELSE [m1.heap EXCEPT ![ref] = SetDelete(@, reviewId)]]

setReviewApproval(m, reviewId, approved, now) ==
    LET m1 == initializeStore(m)
        ref == m1.store.approvedReviewIds
    IN [store |-> [m1.store EXCEPT !.lastUpdated = now],
        heap |-> IF approved
                 THEN [m1.heap EXCEPT ![ref] = SetAdd(@, reviewId)]
                 ELSE [m1.heap EXCEPT ![ref] = SetDelete(@, reviewId)]]

\* faulty variant: the store's own Set object is handed out
getApprovedIdsSetAlias(m) ==
    LET m1 == initializeStore(m)
    IN [m |-> m1, result |-> m1.store.approvedReviewIds]

\* new Set(store.approvedReviewIds): a fresh object with the same elements
getApprovedIdsSet(m) ==
    LET m1 == initializeStore(m)
    IN [m |-> [m1 EXCEPT !.heap["copy"] = SetFrom(Contents(m1))],
        result |-> "copy"]

\* new Date() in setReviewApproval: a reading no earlier than the stamps taken so far
ClockReadings(m) == {t \in 2..MaxTime : t >= m.store.lastUpdated}


(***************************************************************************)
(* JavaScript numbers are IEEE-754 doubles.  A non-negative double is held *)
(* exactly as a natural number of units of 2^-60, written in limbs of 15   *)
(* bits, least significant first; every operation rounds its exact result  *)
(* to 53 significant bits, ties to even.  The numbers of review-utils (sums *)
(* and means of ratings) are 0 or lie between 2^-7 and 2^8, so the units    *)
(* carry every bit of them.                                                *)
(***************************************************************************)
Pow2(n) == 2 ^ n

LimbBase == Pow2(15)
NumLimbs == 5
Limbs == 1..NumLimbs

\* the integer k as a number of units: k * 2^60
BigInt(k) == [i \in Limbs |-> IF i = NumLimbs THEN k ELSE 0]
BigZero == BigInt(0)

\* the limbs of a from limb i upward, with carries (or borrows) propagated
RECURSIVE BigCarry(_, _, _)
BigCarry(a, i, carry) ==
    IF i > NumLimbs THEN <<>>
    ELSE LET v == a[i] + carry
         IN <<v % LimbBase>> \o BigCarry(a, i + 1, (v - (v % LimbBase)) \div LimbBase)

BigAdd(a, b) == BigCarry([i \in Limbs |-> a[i] + b[i]], 1, 0)
\* a - b, for a >= b
BigSub(a, b) == BigCarry([i \in Limbs |-> a[i] - b[i]], 1, 0)
BigMulSmall(a, k) == BigCarry([i \in Limbs |-> a[i] * k], 1, 0)

\* a < b: at the most significant limb that differs
BigLess(a, b) ==
    \E i \in Limbs : a[i] < b[i] /\ \A j \in Limbs : j > i => a[j] = b[j]

\* long division by a small n, from limb i downward: the quotient's limbs, most
\* significant first, and then the remainder
RECURSIVE BigDivFrom(_, _, _, _)
BigDivFrom(a, n, i, rem) ==
    IF i = 0 THEN <<rem>>
    ELSE LET v == rem * LimbBase + a[i]
         IN <<v \div n>> \o BigDivFrom(a, n, i - 1, v % n)

BigDivSmall(a, n) ==
    LET d == BigDivFrom(a, n, NumLimbs, 0)
    IN [q |-> [i \in Limbs |-> d[NumLimbs + 1 - i]], r |-> d[NumLimbs + 1]]

\* the number of bits of a
BitLen(a) ==
    IF a = BigZero THEN 0
    ELSE LET top == CHOOSE i \in Limbs : a[i] # 0 /\ \A j \in Limbs : j > i => a[j] = 0
             bits == CHOOSE b \in 1..15 : Pow2(b - 1) <= a[top] /\ a[top] < Pow2(b)
         IN 15 * (top - 1) + bits

\* the exact value a (plus a positive fraction of a unit when sticky) rounded
\* to 53 significant bits, ties to even
Round53(a, sticky) ==
    IF BitLen(a) <= 53 THEN a
    ELSE LET s == BitLen(a) - 53
             d == BigDivSmall(a, Pow2(s))
             half == Pow2(s - 1)
             up == \/ d.r > half
                   \/ d.r = half /\ sticky
                   \/ d.r = half /\ d.q[1] % 2 = 1
             m == IF up THEN BigCarry([d.q EXCEPT ![1] = @ + 1], 1, 0) ELSE d.q
         IN BigMulSmall(m, Pow2(s))

\* a + b, a - b (for a >= b), a * k and a / n as JavaScript computes them; an
\* operation on 0 is exact (x + 0 = x, x - 0 = x, 0 * k = 0, 0 / n = 0)
FAdd(a, b) ==
    IF b = BigZero THEN a
    ELSE IF a = BigZero THEN b
    ELSE Round53(BigAdd(a, b), FALSE)
FSub(a, b) == IF b = BigZero THEN a ELSE Round53(BigSub(a, b), FALSE)
FMulSmall(a, k) == IF a = BigZero THEN a ELSE Round53(BigMulSmall(a, k), FALSE)
FDivSmall(a, n) ==
    IF a = BigZero THEN a
    ELSE LET d == BigDivSmall(a, n) IN Round53(d.q, d.r # 0)

\* the double of a number written with one decimal, given in tenths: 49 is 4.9
Tenths(k) == FDivSmall(BigInt(k), 10)

\* Math.round: the nearest integer, ties upward
MathRound(a) == a[NumLimbs] + (IF a[NumLimbs - 1] >= LimbBase \div 2 THEN 1 ELSE 0)

(***************************************************************************)
(* The review fixture (mock-reviews.json).  Ratings are in tenths, so 45   *)
(* is 4.5 stars, and the nullable rating is <<>> for null and <<n>> for a  *)
(* number; a submission time is the provider's string, and ParseDate gives *)
(* the instant new Date() reads from it; the optional listingId is <<n>>   *)
(* when present and <<>> when absent, the reviewCategory list likewise.    *)
(* The free texts (publicReview, privateReview) are copied as they are and *)
(* left out.                                                               *)
(***************************************************************************)
MockReviews ==
    [status |-> "success",
     message |-> UNDEFINED,
     result |-> <<
        [id |-> 10002, type |-> "guest-to-host", status |-> "published", rating |-> <<40>>,
         reviewCategory |-> << <<[category |-> "cleanliness", rating |-> 8]>> >>,
         submittedAt |-> "2024-11-10 09:00:00", guestName |-> "Sarah Johnson",
         listingId |-> <<1001>>,
         listingName |-> "2B Shoreditch Heights - Modern Loft", channelName |-> "booking.com"],
        [id |-> 10001, type |-> "guest-to-host", status |-> "published", rating |-> <<50>>,
         reviewCategory |-> << <<[category |-> "cleanliness", rating |-> 10]>> >>,
         submittedAt |-> "2024-11-15 14:30:00", guestName |-> "Sarah Johnson",
         listingId |-> <<1001>>,
         listingName |-> "2B Shoreditch Heights - Modern Loft", channelName |-> "airbnb"],
        [id |-> 10003, type |-> "host-to-guest", status |-> "published", rating |-> <<50>>,
         reviewCategory |-> << <<[category |-> "respect_house_rules", rating |-> 10]>> >>,
         submittedAt |-> "2024-11-15 14:30:00", guestName |-> "Madonna",
         listingId |-> <<1001>>,
         listingName |-> "2B Shoreditch Heights - Modern Loft", channelName |-> "airbnb"],
        [id |-> 10004, type |-> "guest-to-host", status |-> "pending", rating |-> <<30>>,
         reviewCategory |-> << <<[category |-> "cleanliness", rating |-> 6]>> >>,
         submittedAt |-> "2024-11-12 08:15:00", guestName |-> "Madonna",
         listingId |-> <<1002>>,
         listingName |-> "Le Marais Studio - Charming Hideaway", channelName |-> UNDEFINED]
     >>]

\* what a function leaves when it throws instead of returning
Thrown == [thrown |-> "TypeError"]

\* the clock readings of new Date(), in days of November 2024
NormalizerClock == {20, 21}

\* new Date(dateStr.replace(' ', 'T')).getTime(), in days of November 2024:
\* <<t>> for a date, <<>> for an Invalid Date (its time is NaN)
ParseDate(dateStr) ==
    CASE dateStr = "2024-11-10 09:00:00" -> <<10>>
      [] dateStr = "2024-11-12 08:15:00" -> <<12>>
      [] dateStr = "2024-11-15 14:30:00" -> <<15>>
      [] OTHER -> <<>>

\* the ISO string is written as the instant it denotes.  dateStr.replace
\* throws on a missing string and toISOString throws on an Invalid Date;
\* the catch answers with the clock
parseToISOString(dateStr, now) ==
    IF dateStr = UNDEFINED THEN now
    ELSE IF ParseDate(dateStr) = <<>> THEN now
    ELSE ParseDate(dateStr)[1]

\* toLocaleDateString does not throw on an Invalid Date: it answers
\* 'Invalid Date'; only the missing string reaches the catch
formatDate(dateStr) ==
    IF dateStr = UNDEFINED THEN dateStr
    ELSE CASE dateStr = "2024-11-10 09:00:00" -> "10 Nov 2024"
           [] dateStr = "2024-11-12 08:15:00" -> "12 Nov 2024"
           [] dateStr = "2024-11-15 14:30:00" -> "15 Nov 2024"
           [] OTHER -> "Invalid Date"

RECURSIVE SumRatings(_)
\* categories.reduce((acc, cat) => acc + cat.rating, 0); the ratings are integers
SumRatings(categories) ==
    IF categories = <<>> THEN 0
    ELSE SumRatings(SubSeq(categories, 1, Len(categories) - 1))
           + categories[Len(categories)].rating

\* faulty variant: a rating of 0 is taken for no rating (rating || ...)
calculateOverallRatingFalsy(rating, categories) ==
    IF rating # <<>> /\ rating # <<0>> THEN rating[1]
    ELSE IF Len(categories) = 0 THEN 0
    ELSE MathRound(FMulSmall(FDivSmall(
             FDivSmall(BigInt(SumRatings(categories)), Len(categories)), 2), 10))

\* the result is in tenths: Math.round(x) / 10 is the double of Math.round(x) tenths
calculateOverallRating(rating, categories) ==
    IF rating # <<>> THEN rating[1]
    ELSE IF Len(categories) = 0 THEN 0
    ELSE MathRound(FMulSmall(FDivSmall(
             FDivSmall(BigInt(SumRatings(categories)), Len(categories)), 2), 10))

\* listingName.replace(/\s+/g, '-').toLowerCase()
Slug(listingName) ==
    CASE listingName = "2B Shoreditch Heights - Modern Loft" -> "2b-shoreditch-heights---modern-loft"
      [] listingName = "Le Marais Studio - Charming Hideaway" -> "le-marais-studio---charming-hideaway"
      [] listingName = "" -> ""

getInitials(name) ==
    CASE name \in {UNDEFINED, ""} -> "??"
      [] name = "Madonna" -> "MA"
      [] name = "Sarah Johnson" -> "SJ"

getShortPropertyName(fullName) ==
    CASE fullName \in {UNDEFINED, ""} -> "Unknown Property"
      [] fullName = "2B Shoreditch Heights - Modern Loft" -> "2B Shoreditch Heights"
      [] fullName = "Le Marais Studio - Charming Hideaway" -> "Le Marais Studio"

\* of a string; listingName.match throws on a missing name
extractLocation(listingName) ==
    CASE listingName = "2B Shoreditch Heights - Modern Loft" -> "Shoreditch"
      [] listingName = "Le Marais Studio - Charming Hideaway" -> "Marais"
      [] listingName = "" -> UNDEFINED

\* CATEGORY_DISPLAY_NAMES[name], or the name capitalized with its underscores
\* turned into spaces
CategoryDisplayName(name) ==
    CASE name = "cleanliness" -> "Cleanliness"
      [] name = "respect_house_rules" -> "House Rules"
      [] name = "pet_friendliness" -> "Pet friendliness"

\* CHANNEL_DISPLAY_NAMES[channel], or the raw channel name
ChannelDisplayName(channelName) ==
    CASE channelName \in {UNDEFINED, "", "direct"} -> "Direct Booking"
      [] channelName = "airbnb" -> "Airbnb"
      [] channelName = "booking.com" -> "Booking.com"
      [] OTHER -> channelName

\* the canonical review, or Thrown: review.listingName.replace (line 143) and
\* extractLocation (line 164) throw on a missing listing name,
\* review.reviewCategory.map (line 146) on a missing category list
normalizeReview(review, approvedIds, now) ==
    IF \/ review.listingName = UNDEFINED
       \/ review.reviewCategory = <<>>
    THEN Thrown
    ELSE
    LET propertyId == IF review.listingId # <<>>
                      THEN ToString(review.listingId[1])
                      ELSE Slug(review.listingName)
        reviewCategory == review.reviewCategory[1]
    IN [id |-> ToString(review.id),
        propertyId |-> propertyId,
        property |-> [id |-> propertyId, name |-> review.listingName,
                      shortName |-> getShortPropertyName(review.listingName),
                      location |-> extractLocation(review.listingName)],
        reviewer |-> review.guestName,
        reviewerInitials |-> getInitials(review.guestName),
        overallRating |-> calculateOverallRating(review.rating, reviewCategory),
        categories |-> [i \in 1..Len(reviewCategory) |->
                          [name |-> reviewCategory[i].category,
                           displayName |-> CategoryDisplayName(reviewCategory[i].category),
                           rating |-> reviewCategory[i].rating]],
        type |-> IF review.type = "guest-to-host" THEN "guest" ELSE "host",
        status |-> review.status,
        channel |-> IF review.channelName \in {UNDEFINED, ""} THEN "direct" ELSE review.channelName,
        channelDisplayName |-> ChannelDisplayName(review.channelName),
        submittedAt |-> parseToISOString(review.submittedAt, now),
        submittedAtFormatted |-> formatDate(review.submittedAt),
        isApprovedForDisplay |-> SetHas(approvedIds, ToString(review.id))]

\* faulty variant: an unstable sort, which puts the later of two reviews of
\* the same instant first
RECURSIVE SortByDateDescUnstable(_)
SortByDateDescUnstable(rs) ==
    IF rs = <<>> THEN <<>>
    ELSE LET n == Len(rs)
             sorted == SortByDateDescUnstable(SubSeq(rs, 1, n - 1))
             x == rs[n]
             k == Cardinality({i \in 1..Len(sorted) : sorted[i].submittedAt > x.submittedAt})
         IN SubSeq(sorted, 1, k) \o <<x>> \o SubSeq(sorted, k + 1, Len(sorted))

\* Array.prototype.sort with (a, b) => time(b) - time(a): stable, latest first
RECURSIVE SortByDateDesc(_)
SortByDateDesc(rs) ==
    IF rs = <<>> THEN <<>>
    ELSE LET n == Len(rs)
             sorted == SortByDateDesc(SubSeq(rs, 1, n - 1))
             x == rs[n]
             \* x goes after every element that is not older than it
             k == Cardinality({i \in 1..Len(sorted) : sorted[i].submittedAt >= x.submittedAt})
         IN SubSeq(sorted, 1, k) \o <<x>> \o SubSeq(sorted, k + 1, Len(sorted))

\* the first review of each property ID, in order (the Map of lines 220-225)
RECURSIVE UniqueProperties(_)
UniqueProperties(rs) ==
    IF rs = <<>> THEN <<>>
    ELSE LET n == Len(rs)
             before == UniqueProperties(SubSeq(rs, 1, n - 1))
         IN IF \E i \in 1..Len(before) : before[i].id = rs[n].propertyId
            THEN before
            ELSE Append(before, rs[n].property)

\* faulty variant: Math.max in the place of Math.min
MinOfLargest(S) == CHOOSE x \in S : \A y \in S : x >= y

MinOf(S) == CHOOSE x \in S : \A y \in S : x <= y
MaxOf(S) == CHOOSE x \in S : \A y \in S : x >= y

\* allReviews.map(review => normalizeReview(review, approvedIds))
MappedReviews(response, approvedIds, now) ==
    [i \in 1..Len(response.result) |-> normalizeReview(response.result[i], approvedIds, now)]

\* a throw of normalizeReview leaves the map and normalizeHostawayResponse
MapThrows(response, approvedIds, now) ==
    \E i \in 1..Len(response.result) : MappedReviews(response, approvedIds, now)[i] = Thrown

\* faulty variant: a failed envelope's records are normalized all the same
normalizeHostawayResponsePartial(response, approvedIds, now) ==
    IF MapThrows(response, approvedIds, now) THEN Thrown
    ELSE LET normalizedReviews == SortByDateDesc(MappedReviews(response, approvedIds, now))
         IN [success |-> response.status = "success",
             reviews |-> normalizedReviews,
             meta |-> [total |-> Len(normalizedReviews), properties |-> <<>>,
                       channels |-> <<>>,
                       dateRange |-> [earliest |-> "", latest |-> ""]],
             error |-> response.message]

\* the successful envelope of lines 215-245, of the normalized and sorted
\* reviews; dates are instants, and the empty date range is ''
SuccessResponse(normalizedReviews) ==
    LET dates == {normalizedReviews[i].submittedAt : i \in 1..Len(normalizedReviews)}
    IN [success |-> TRUE,
        reviews |-> normalizedReviews,
        meta |-> [total |-> Len(normalizedReviews),
                  properties |-> UniqueProperties(normalizedReviews),
                  channels |-> SetFrom([i \in 1..Len(normalizedReviews) |->
                                          normalizedReviews[i].channel]),
                  dateRange |-> IF dates = {}
                                THEN [earliest |-> "", latest |-> ""]
                                ELSE [earliest |-> MinOf(dates),
                                      latest |-> MaxOf(dates)]]]

normalizeHostawayResponse(response, approvedIds, now) ==
    IF response.status # "success"
    THEN [success |-> FALSE,
          reviews |-> <<>>,
          meta |-> [total |-> 0, properties |-> <<>>, channels |-> <<>>,
                    dateRange |-> [earliest |-> "", latest |-> ""]],
          error |-> IF response.message \in {UNDEFINED, ""}
                    THEN "Failed to fetch reviews"
                    ELSE response.message]
    ELSE IF MapThrows(response, approvedIds, now) THEN Thrown
    ELSE SuccessResponse(SortByDateDesc(MappedReviews(response, approvedIds, now)))

\* faulty variant: the direction is compared even when none is given
filterReviewsTypeAlways(reviews, filters) ==
    SelectSeq(reviews, LAMBDA review :
        /\ ~(filters.propertyId \notin {UNDEFINED, ""} /\ review.propertyId # filters.propertyId)
        /\ ~(filters.channel \notin {UNDEFINED, ""} /\ review.channel # filters.channel)
        /\ ~(filters.minRating # <<>> /\ filters.minRating # <<0>>
             /\ review.overallRating < filters.minRating[1])
        /\ ~(filters.type # "all" /\ review.type # filters.type)
        /\ ~(filters.approvedOnly /\ ~review.isApprovedForDisplay))

\* faulty variant: the minimum rating is an exclusive bound
filterReviewsExclusive(reviews, filters) ==
    SelectSeq(reviews, LAMBDA review :
        /\ ~(filters.propertyId \notin {UNDEFINED, ""} /\ review.propertyId # filters.propertyId)
        /\ ~(filters.channel \notin {UNDEFINED, ""} /\ review.channel # filters.channel)
        /\ ~(filters.minRating # <<>> /\ filters.minRating # <<0>>
             /\ review.overallRating <= filters.minRating[1])
        /\ ~(filters.type \notin {UNDEFINED, ""} /\ filters.type # "all" /\ review.type # filters.type)
        /\ ~(filters.approvedOnly /\ ~review.isApprovedForDisplay))

\* faulty variant: the first criterion that is set decides alone
filterReviewsFirstCriterion(reviews, filters) ==
    SelectSeq(reviews, LAMBDA review :
        IF filters.propertyId \notin {UNDEFINED, ""} THEN review.propertyId = filters.propertyId
        ELSE IF filters.channel \notin {UNDEFINED, ""} THEN review.channel = filters.channel
        ELSE IF filters.minRating # <<>> /\ filters.minRating # <<0>>
             THEN review.overallRating >= filters.minRating[1]
        ELSE IF filters.type \notin {UNDEFINED, ""} /\ filters.type # "all"
             THEN review.type = filters.type
        ELSE ~(filters.approvedOnly /\ ~review.isApprovedForDisplay))

\* an absent filter is UNDEFINED; minRating is <<>> when absent, <<n>> otherwise
filterReviews(reviews, filters) ==
    SelectSeq(reviews, LAMBDA review :
        /\ ~(filters.propertyId \notin {UNDEFINED, ""} /\ review.propertyId # filters.propertyId)
        /\ ~(filters.channel \notin {UNDEFINED, ""} /\ review.channel # filters.channel)
        /\ ~(filters.minRating # <<>> /\ filters.minRating # <<0>>
             /\ review.overallRating < filters.minRating[1])
        /\ ~(filters.type \notin {UNDEFINED, ""} /\ filters.type # "all" /\ review.type # filters.type)
        /\ ~(filters.approvedOnly /\ ~review.isApprovedForDisplay))

(***************************************************************************)
(* DashboardPage's filteredReviews memo: the filters one after the other,  *)
(* then the sort.                                                          *)
(***************************************************************************)
\* filters.propertyId || selectedPropertyId: the first of the two that is set
EffectivePropertyId(filters, selected) ==
    IF filters.propertyId \notin {UNDEFINED, ""} THEN filters.propertyId ELSE selected

\* the five result.filter calls, each under its condition
DashboardFilter(reviews, filters, selected) ==
    LET byProperty == IF EffectivePropertyId(filters, selected) \notin {NULL, ""}
                      THEN SelectSeq(reviews, LAMBDA r :
                               r.propertyId = EffectivePropertyId(filters, selected))
                      ELSE reviews
        byChannel == IF filters.channel \notin {UNDEFINED, ""}
                     THEN SelectSeq(byProperty, LAMBDA r : r.channel = filters.channel)
                     ELSE byProperty
        byRating == IF filters.minRating # <<>> /\ filters.minRating # <<0>>
                    THEN SelectSeq(byChannel, LAMBDA r : r.overallRating >= filters.minRating[1])
                    ELSE byChannel
        byType == IF filters.type \notin {UNDEFINED, ""} /\ filters.type # "all"
                  THEN SelectSeq(byRating, LAMBDA r : r.type = filters.type)
                  ELSE byRating
    IN IF filters.approvedOnly
       THEN SelectSeq(byType, LAMBDA r : r.isApprovedForDisplay)
       ELSE byType

\* a.localeCompare(b) orders strings by their place in the collation order
LocaleRank(str) ==
    CASE str = "2B Shoreditch Heights - Modern Loft" -> 1
      [] str = "Le Marais Studio - Charming Hideaway" -> 2
      [] str = "airbnb" -> 3
      [] str = "booking.com" -> 4
      [] str = "direct" -> 5

\* the `comparison` of the switch: negative, zero or positive.  Instants are
\* numbers already, and the difference of two ratings has the sign of the
\* difference of their tenths
Comparison(a, b, field) ==
    CASE field = "date" -> a.submittedAt - b.submittedAt
      [] field = "rating" -> a.overallRating - b.overallRating
      [] field = "property" -> LocaleRank(a.property.name) - LocaleRank(b.property.name)
      [] field = "channel" -> LocaleRank(a.channel) - LocaleRank(b.channel)

\* faulty variant: the order of the sort is not looked at
ComparatorAscending(a, b, sortSpec) ==
    Comparison(a, b, sortSpec.field)

\* what the comparator returns
Comparator(a, b, sortSpec) ==
    IF sortSpec.order = "desc" THEN 0 - Comparison(a, b, sortSpec.field)
    ELSE Comparison(a, b, sortSpec.field)

\* faulty variant: descending as the ascending order reversed
RECURSIVE SortReviewsReversing(_, _)
SortReviewsReversing(result, sortSpec) ==
    IF result = <<>> THEN <<>>
    ELSE LET n == Len(result)
             sorted == SortReviewsReversing(SubSeq(result, 1, n - 1), sortSpec)
             x == result[n]
             k == IF sortSpec.order = "desc"
                  THEN Cardinality({i \in 1..Len(sorted) :
                                      Comparison(sorted[i], x, sortSpec.field) > 0})
                  ELSE Cardinality({i \in 1..Len(sorted) :
                                      Comparison(sorted[i], x, sortSpec.field) <= 0})
         IN SubSeq(sorted, 1, k) \o <<x>> \o SubSeq(sorted, k + 1, Len(sorted))

\* result.sort(comparator): Array.prototype.sort is stable, so an element
\* goes after every element the comparator does not put behind it
RECURSIVE SortReviews(_, _)
SortReviews(result, sortSpec) ==
    IF result = <<>> THEN <<>>
    ELSE LET n == Len(result)
             sorted == SortReviews(SubSeq(result, 1, n - 1), sortSpec)
             x == result[n]
             k == Cardinality({i \in 1..Len(sorted) : Comparator(sorted[i], x, sortSpec) <= 0})
         IN SubSeq(sorted, 1, k) \o <<x>> \o SubSeq(sorted, k + 1, Len(sorted))

FilteredReviews(reviews, filters, sortSpec, selected) ==
    SortReviews(DashboardFilter(reviews, filters, selected), sortSpec)


(***************************************************************************)
(* calculatePropertyPerformance.  A Record<..., number> is a function from *)
(* its keys; averages are in tenths, as Math.round(x * 10) / 10 leaves     *)
(* them.                                                                   *)
(***************************************************************************)
EmptyRecord == [k \in {} |-> 0]

\* faulty variant: host-authored reviews of the property count as well
MatchingReviewsAnyType(reviews, property) ==
    SelectSeq(reviews, LAMBDA r : r.propertyId = property.id)

\* reviews.filter(r => r.propertyId === property.id && r.type === 'guest')
MatchingReviews(reviews, property) ==
    SelectSeq(reviews, LAMBDA r : r.propertyId = property.id /\ r.type = "guest")

\* faulty variant: the histogram is set up before the early return
EmptyPerformanceWithBuckets(property) ==
    [property |-> property,
     totalReviews |-> 0,
     averageRating |-> 0,
     ratingDistribution |-> [k \in 1..5 |-> 0],
     categoryAverages |-> EmptyRecord,
     approvedCount |-> 0,
     pendingCount |-> 0,
     recentTrend |-> "stable",
     channelBreakdown |-> EmptyRecord]

\* the record of lines 259-269
EmptyPerformance(property) ==
    [property |-> property,
     totalReviews |-> 0,
     averageRating |-> 0,
     ratingDistribution |-> EmptyRecord,
     categoryAverages |-> EmptyRecord,
     approvedCount |-> 0,
     pendingCount |-> 0,
     recentTrend |-> "stable",
     channelBreakdown |-> EmptyRecord]

\* the accumulator of rs.reduce((sum, r) => sum + r.overallRating, 0): its
\* initial value and its value after each review, every one a double
RECURSIVE RunningTotals(_)
RunningTotals(rs) ==
    IF rs = <<>> THEN <<BigZero>>
    ELSE LET before == RunningTotals(SubSeq(rs, 1, Len(rs) - 1))
         IN Append(before, FAdd(before[Len(before)], Tenths(rs[Len(rs)].overallRating)))

\* rs.reduce((sum, r) => sum + r.overallRating, 0), a sum of doubles
TotalRating(rs) == RunningTotals(rs)[Len(rs) + 1]

\* every category rating of every review, in order
RECURSIVE AllCategories(_)
AllCategories(rs) ==
    IF rs = <<>> THEN <<>>
    ELSE AllCategories(SubSeq(rs, 1, Len(rs) - 1)) \o rs[Len(rs)].categories

\* Math.round((sum / count) * 10) / 10 per category name
CategoryAverages(rs) ==
    LET all == AllCategories(rs)
        names == {all[i].name : i \in 1..Len(all)}
    IN [name \in names |->
          LET ofName == SelectSeq(all, LAMBDA cat : cat.name = name)
          IN MathRound(FMulSmall(FDivSmall(BigInt(SumRatings(ofName)), Len(ofName)), 10))]

\* faulty variant: three reviews are enough for a trend
RecentTrendFromThree(sorted) ==
    IF Len(sorted) >= 3
    THEN LET recentAvg == FDivSmall(TotalRating(SubSeq(sorted, 1, 2)), 2)
             olderAvg == FDivSmall(TotalRating(SubSeq(sorted, 3, IF Len(sorted) >= 4 THEN 4 ELSE 3)), 2)
             threshold == Tenths(3)
         IN IF BigLess(FAdd(olderAvg, threshold), recentAvg) THEN "up"
            ELSE IF ~BigLess(olderAvg, threshold) /\ BigLess(recentAvg, FSub(olderAvg, threshold))
                 THEN "down"
            ELSE "stable"
    ELSE "stable"

\* lines 316-323.  olderAvg - 0.3 is negative when olderAvg is below 0.3, and
\* no average is below a negative number
RecentTrend(sorted) ==
    IF Len(sorted) >= 4
    THEN LET recentAvg == FDivSmall(TotalRating(SubSeq(sorted, 1, 2)), 2)
             olderAvg == FDivSmall(TotalRating(SubSeq(sorted, 3, 4)), 2)
             threshold == Tenths(3)
         IN IF BigLess(FAdd(olderAvg, threshold), recentAvg) THEN "up"
            ELSE IF ~BigLess(olderAvg, threshold) /\ BigLess(recentAvg, FSub(olderAvg, threshold))
                 THEN "down"
            ELSE "stable"
    ELSE "stable"

\* faulty variant: a rating that rounds below 1 is counted as 1 star
RatingDistributionClamped(propertyReviews) ==
    [k \in 1..5 |->
       Cardinality({i \in 1..Len(propertyReviews) :
          \/ MathRound(Tenths(propertyReviews[i].overallRating)) = k
          \/ k = 1 /\ MathRound(Tenths(propertyReviews[i].overallRating)) < 1})]

\* the buckets 1..5 start at 0 and each review whose Math.round is in 1..5
\* adds one to its bucket (lines 277-283)
RatingDistribution(propertyReviews) ==
    [k \in 1..5 |->
       Cardinality({i \in 1..Len(propertyReviews) :
          MathRound(Tenths(propertyReviews[i].overallRating)) = k})]

calculatePropertyPerformance(reviews, property) ==
    LET propertyReviews == MatchingReviews(reviews, property)
        n == Len(propertyReviews)
    IN IF n = 0 THEN EmptyPerformance(property)
       ELSE [property |-> property,
             totalReviews |-> n,
             averageRating |->
                 MathRound(FMulSmall(FDivSmall(TotalRating(propertyReviews), n), 10)),
             ratingDistribution |-> RatingDistribution(propertyReviews),
             categoryAverages |-> CategoryAverages(propertyReviews),
             approvedCount |->
                 Len(SelectSeq(propertyReviews, LAMBDA r : r.isApprovedForDisplay)),
             pendingCount |->
                 Len(SelectSeq(propertyReviews, LAMBDA r : r.status = "pending")),
             recentTrend |-> RecentTrend(SortByDateDesc(propertyReviews)),
             channelBreakdown |->
                 [c \in {propertyReviews[i].channel : i \in 1..n} |->
                    Cardinality({i \in 1..n : propertyReviews[i].channel = c})]]

(***************************************************************************)
(* src/app/api/reviews/approve/route.ts: POST and GET.                     *)
(* A request body is unparseable (request.json() rejects), the JSON value  *)
(* null (destructuring it throws), or an object.  Of an object's fields,   *)
(* reviewId is absent, '' or an ID; approved is absent, the boolean true   *)
(* or false (written "true", "false") or the string 'true'.                *)
(***************************************************************************)
Bodies ==
    {[kind |-> "unparseable"], [kind |-> "null"]}
    \cup {[kind |-> "object", reviewId |-> r, approved |-> a] :
            r \in {UNDEFINED, ""} \cup ReviewIds,
            a \in {UNDEFINED, "true", "false", "'true'"}}

TypeofBoolean(v) == v \in {"true", "false"}

\* faulty variant: the IDs are counted before the store is updated
POSTCountBefore(m, body, now) ==
    IF body.kind # "object"
    THEN [m |-> m, response |-> [status |-> 500, success |-> FALSE]]
    ELSE IF body.reviewId \in {UNDEFINED, ""} \/ ~TypeofBoolean(body.approved)
    THEN [m |-> m, response |-> [status |-> 400, success |-> FALSE]]
    ELSE LET approvedIds == getApprovedReviewIds(m)
             m1 == setReviewApproval(approvedIds.m, body.reviewId, body.approved = "true", now)
         IN [m |-> m1,
             response |-> [status |-> 200, success |-> TRUE,
                           reviewId |-> body.reviewId,
                           approved |-> (body.approved = "true"),
                           totalApproved |-> Len(approvedIds.result)]]

POST(m, body, now) ==
    IF body.kind # "object"
    THEN \* the catch block, lines 52-59
         [m |-> m, response |-> [status |-> 500, success |-> FALSE]]
    ELSE IF body.reviewId \in {UNDEFINED, ""} \/ ~TypeofBoolean(body.approved)
    THEN [m |-> m, response |-> [status |-> 400, success |-> FALSE]]
    ELSE LET m1 == setReviewApproval(m, body.reviewId, body.approved = "true", now)
             approvedIds == getApprovedReviewIds(m1)
         IN [m |-> approvedIds.m,
             response |-> [status |-> 200, success |-> TRUE,
                           reviewId |-> body.reviewId,
                           approved |-> (body.approved = "true"),
                           totalApproved |-> Len(approvedIds.result)]]

GET(m) ==
    LET data == getApprovalData(m)
    IN [m |-> data.m,
        response |-> [status |-> 200, success |-> TRUE,
                      approvedReviewIds |-> data.result.approvedReviewIds,
                      totalApproved |-> Len(data.result.approvedReviewIds),
                      lastUpdated |-> data.result.lastUpdated]]

(***************************************************************************)
(* src/app/api/reviews/hostaway/route.ts: GET.  fetchHostawayReviews       *)
(* answers with the fixture (the sandbox API has no reviews).              *)
(***************************************************************************)
fetchHostawayReviews == MockReviews

\* new Set(): the approved-ID set the handler hands to the normalizer (line 98)
HostawayApprovedIds == <<>>

\* lines 100-122: the answer made of the normalized response and the filters
HostawayAnswer(normalizedResponse, filters) ==
    IF ~normalizedResponse.success
    THEN [status |-> 500, body |-> normalizedResponse]
    ELSE LET filteredReviews == filterReviews(normalizedResponse.reviews, filters)
         IN [status |-> 200,
             body |-> [success |-> TRUE,
                       reviews |-> filteredReviews,
                       meta |-> [total |-> Len(filteredReviews),
                                 unfilteredTotal |-> Len(normalizedResponse.reviews),
                                 properties |-> normalizedResponse.meta.properties,
                                 channels |-> normalizedResponse.meta.channels,
                                 dateRange |-> normalizedResponse.meta.dateRange]]]

HostawayGET(propertyId, channel, type, minRating, now) ==
    HostawayAnswer(normalizeHostawayResponse(fetchHostawayReviews, HostawayApprovedIds, now),
                   [propertyId |-> propertyId, channel |-> channel,
                    type |-> type, minRating |-> minRating,
                    approvedOnly |-> FALSE])

(***************************************************************************)
(* src/app/property/[id]/page.tsx                                          *)
(***************************************************************************)
propertyDetails == {"1001", "1002", "1003", "1004"}

getPropertyReviews(propertyId, now) ==
    LET approvedIds == SetFrom(SeedApprovedIds)
        normalized1 == normalizeHostawayResponse(MockReviews, approvedIds, now)
    IN SelectSeq(normalized1.reviews, LAMBDA r :
           r.propertyId = propertyId /\ r.isApprovedForDisplay /\ r.type = "guest")

PropertyPage(id, now) ==
    IF id \notin propertyDetails
    THEN [found |-> FALSE, id |-> id, reviews |-> <<>>]
    ELSE [found |-> TRUE, id |-> id, reviews |-> getPropertyReviews(id, now)]

(***************************************************************************)
(* The file-backed approval cache (src/unnamed/part_002).  Both functions  *)
(* are async: a call runs to its next await, and calls in flight           *)
(* interleave at the awaits (fs.readFile, fs.writeFile).                   *)
(***************************************************************************)
seedData == [approvedReviewIds |-> SeedApprovedIds, lastUpdated |-> SeedLastUpdated]

\* the ApprovalData values a caller saves
ApprovalDataValues ==
    {[approvedReviewIds |-> ids, lastUpdated |-> t] :
        ids \in {<<>>, <<"10002">>, <<"10001", "10002">>}, t \in 2..MaxTime}

\* null (no cache, no stored item) and a file that cannot be read
Nothing == [null |-> TRUE]
Missing == [missing |-> TRUE]

IdleCall == [pc |-> "idle"]

InitFile ==
    /\ approvalCache = Nothing
    /\ fcall = [c \in Calls |-> IdleCall]
    /\ fout = [op |-> "none"]
    /\ lastSaved = Nothing

\* getApprovalData, lines 17-25: the cached data, or the file read begins
GetApprovalDataCall(c) ==
    /\ fcall[c].pc = "idle"
    /\ IF approvalCache # Nothing
       THEN /\ fout' = [op |-> "getApprovalData", call |-> c, result |-> approvalCache]
            /\ UNCHANGED fcall
       ELSE /\ fcall' = [fcall EXCEPT ![c] = [pc |-> "readFile"]]
            /\ UNCHANGED fout
    /\ UNCHANGED <<approvalCache, file, lastSaved, memVars, localVars, utilVars>>

\* lines 25-47 once fs.readFile settles: the parsed file becomes the cache and
\* is returned; a failed read seeds the cache and calls saveApprovalData with
\* it, which assigns the cache (line 51) and begins the write
GetApprovalDataRead(c) ==
    /\ fcall[c].pc = "readFile"
    /\ IF file # Missing
       THEN /\ approvalCache' = file
            /\ fout' = [op |-> "getApprovalData", call |-> c, result |-> file]
            /\ fcall' = [fcall EXCEPT ![c] = IdleCall]
            /\ UNCHANGED lastSaved
       ELSE /\ approvalCache' = seedData
            /\ lastSaved' = seedData
            /\ fcall' = [fcall EXCEPT ![c] = [pc |-> "seedWrite", data |-> seedData]]
            /\ UNCHANGED fout
    /\ UNCHANGED <<file, memVars, localVars, utilVars>>

\* lines 44-47 once the write of the seed settles: whatever the write did, the
\* call returns the cache as it is now
GetApprovalDataSeeded(c, written) ==
    /\ fcall[c].pc = "seedWrite"
    /\ file' = IF written THEN fcall[c].data ELSE file
    /\ fout' = [op |-> "getApprovalData", call |-> c, result |-> approvalCache]
    /\ fcall' = [fcall EXCEPT ![c] = IdleCall]
    /\ UNCHANGED <<approvalCache, lastSaved, memVars, localVars, utilVars>>

\* saveApprovalData, lines 50-54: the cache is assigned and the write begins
SaveApprovalDataCall(c, data) ==
    /\ fcall[c].pc = "idle"
    /\ approvalCache' = data
    /\ lastSaved' = data
    /\ fcall' = [fcall EXCEPT ![c] = [pc |-> "writeFile", data |-> data]]
    /\ UNCHANGED <<file, fout, memVars, localVars, utilVars>>

\* lines 53-57: the catch logs a failed write and touches nothing
CacheAfterWrite(cache, written) == cache

\* saveApprovalData once fs.writeFile settles: written or not, the call returns
SaveApprovalDataSettled(c, written) ==
    /\ fcall[c].pc = "writeFile"
    /\ file' = IF written THEN fcall[c].data ELSE file
    /\ approvalCache' = CacheAfterWrite(approvalCache, written)
    /\ fout' = [op |-> "saveApprovalData", call |-> c, data |-> fcall[c].data,
                raised |-> FALSE, written |-> written]
    /\ fcall' = [fcall EXCEPT ![c] = IdleCall]
    /\ UNCHANGED <<lastSaved, memVars, localVars, utilVars>>

NextFile ==
    \/ \E c \in Calls : GetApprovalDataCall(c)
    \/ \E c \in Calls : GetApprovalDataRead(c)
    \/ \E c \in Calls, written \in BOOLEAN : GetApprovalDataSeeded(c, written)
    \/ \E c \in Calls, data \in ApprovalDataValues : SaveApprovalDataCall(c, data)
    \/ \E c \in Calls, written \in BOOLEAN : SaveApprovalDataSettled(c, written)

(***************************************************************************)
(* The client-local approval store (src/unnamed/part_003).  A function     *)
(* takes the item stored under STORAGE_KEY (Nothing when there is none) and   *)
(* whether it runs in a browser.                                           *)
(***************************************************************************)
getApprovedReviewIdsLocal(stored, browser) ==
    IF ~browser THEN SeedApprovedIds
    ELSE IF stored # Nothing THEN stored.approvedReviewIds
    ELSE SeedApprovedIds

\* `written`: whether localStorage.setItem stored the item or threw (quota,
\* storage blocked); the catch logs the error
saveApprovedReviewIds(stored, browser, ids, now, written) ==
    IF ~browser THEN stored
    ELSE IF written THEN [approvedReviewIds |-> ids, lastUpdated |-> now]
    ELSE stored

toggleReviewApproval(stored, browser, reviewId, approved, now, written) ==
    LET currentIds == getApprovedReviewIdsLocal(stored, browser)
        idSet == SetFrom(currentIds)
        newIds == IF approved THEN SetAdd(idSet, reviewId) ELSE SetDelete(idSet, reviewId)
    IN [stored |-> saveApprovedReviewIds(stored, browser, newIds, now, written),
        result |-> newIds]

isReviewApprovedLocal(stored, browser, reviewId) ==
    SetHas(SetFrom(getApprovedReviewIdsLocal(stored, browser)), reviewId)

initializeApprovals(stored, browser, now, written) ==
    IF ~browser THEN stored
    ELSE IF stored = Nothing
    THEN saveApprovedReviewIds(stored, browser, SeedApprovedIds, now, written)
    ELSE stored

LocalClock == 2..MaxTime

InitLocal ==
    /\ localStorage = Nothing
    /\ lout = [op |-> "none"]
    /\ toggled = [i \in ReviewIds |-> "none"]

LocalGetApprovedReviewIds ==
    /\ lout' = [op |-> "getApprovedReviewIds",
                ids |-> getApprovedReviewIdsLocal(localStorage, isBrowser)]
    /\ UNCHANGED <<isBrowser, localStorage, toggled, memVars, fileVars, utilVars>>

LocalIsReviewApproved(reviewId) ==
    /\ lout' = [op |-> "isReviewApproved", reviewId |-> reviewId,
                has |-> isReviewApprovedLocal(localStorage, isBrowser, reviewId)]
    /\ UNCHANGED <<isBrowser, localStorage, toggled, memVars, fileVars, utilVars>>

LocalToggleReviewApproval(reviewId, approved, written) ==
    /\ \E now \in LocalClock :
         LET r == toggleReviewApproval(localStorage, isBrowser, reviewId, approved, now, written)
         IN /\ localStorage' = r.stored
            /\ lout' = [op |-> "toggleReviewApproval", reviewId |-> reviewId,
                        approved |-> approved, ids |-> r.result, written |-> written]
    /\ toggled' = [toggled EXCEPT ![reviewId] = IF approved THEN "true" ELSE "false"]
    /\ UNCHANGED <<isBrowser, memVars, fileVars, utilVars>>

LocalInitializeApprovals(written) ==
    /\ \E now \in LocalClock :
         localStorage' = initializeApprovals(localStorage, isBrowser, now, written)
    /\ lout' = [op |-> "initializeApprovals"]
    /\ UNCHANGED <<isBrowser, toggled, memVars, fileVars, utilVars>>

NextLocal ==
    \/ LocalGetApprovedReviewIds
    \/ \E reviewId \in ReviewIds : LocalIsReviewApproved(reviewId)
    \/ \E reviewId \in ReviewIds, approved \in BOOLEAN, written \in BOOLEAN :
          LocalToggleReviewApproval(reviewId, approved, written)
    \/ \E written \in BOOLEAN : LocalInitializeApprovals(written)

(***************************************************************************)
(* review-utils (src/unnamed/part_001) under its callers: normalizeReview  *)
(* on one raw review, normalizeHostawayResponse on the envelope the        *)
(* provider answered with.                                                 *)
(***************************************************************************)
MaxReviews == 3

BaseReview == MockReviews.result[1]

\* raw reviews as the provider may send them: the timestamp unparseable or
\* missing, the reviewer name empty or missing, the listing name empty or
\* missing, the listing ID absent, the category list missing, empty or with a
\* category the display table does not know, the rating null, 0 or a number
RawReviews ==
    {[BaseReview EXCEPT !.submittedAt = s, !.guestName = g, !.listingName = l,
                        !.listingId = li, !.reviewCategory = c, !.rating = rt] :
        s \in {"2024-11-10 09:00:00", "2024-11-15 14:30:00", "not a date", UNDEFINED},
        g \in {"Madonna", "", UNDEFINED},
        l \in {"2B Shoreditch Heights - Modern Loft", "", UNDEFINED},
        li \in {<<1001>>, <<>>},
        c \in {<<>>, << <<>> >>,
               << <<[category |-> "cleanliness", rating |-> 8],
                    [category |-> "pet_friendliness", rating |-> 6]>> >>,
               << <<[category |-> "cleanliness", rating |-> 1],
                    [category |-> "respect_house_rules", rating |-> 0]>> >>,
               << <<[category |-> "cleanliness", rating |-> 9],
                    [category |-> "respect_house_rules", rating |-> 8],
                    [category |-> "pet_friendliness", rating |-> 8]>> >>},
        rt \in {<<>>, <<0>>, <<45>>}}

\* the records an envelope is made of: the fixture's, one with an unparseable
\* timestamp and one without a listing name
EnvelopePool ==
    Range(MockReviews.result)
    \cup {[BaseReview EXCEPT !.id = 10005, !.submittedAt = "not a date"],
          [BaseReview EXCEPT !.id = 10006, !.listingName = UNDEFINED]}

ApprovedIdSets == {<<>>, <<"10001">>}

NoOutput == [op |-> "none"]

\* a canonical review as normalizeReview makes it (the first review of the
\* fixture, normalized); PerfReview sets the fields the performance record is
\* computed from
CanonicalBase ==
    [id |-> "10002",
     propertyId |-> "1001",
     property |-> [id |-> "1001",
                   name |-> "2B Shoreditch Heights - Modern Loft",
                   shortName |-> "2B Shoreditch Heights",
                   location |-> "Shoreditch"],
     reviewer |-> "Sarah Johnson",
     reviewerInitials |-> "SJ",
     overallRating |-> 40,
     categories |-> <<[name |-> "cleanliness", displayName |-> "Cleanliness", rating |-> 8]>>,
     type |-> "guest",
     status |-> "published",
     channel |-> "booking.com",
     channelDisplayName |-> "Booking.com",
     submittedAt |-> 10,
     submittedAtFormatted |-> "10 Nov 2024",
     isApprovedForDisplay |-> FALSE]

PerfReview(id, type, propertyId, rating, at, approved, status) ==
    [CanonicalBase EXCEPT !.id = id, !.type = type, !.propertyId = propertyId,
                          !.property = [@ EXCEPT !.id = propertyId],
                          !.overallRating = rating, !.submittedAt = at,
                          !.isApprovedForDisplay = approved, !.status = status]

\* the property whose performance is computed
TargetProperty == CanonicalBase.property

\* the reviews a dashboard list is made of, in the order the list keeps: six
\* guest reviews of the target property (three of the same instant; the first
\* rated 4.3 or 4.5, the last 4.3 or 0), a host review of it and a guest
\* review of another property, the last two newer than all others and each
\* with two contents
PerfPool ==
    << {PerfReview("g1", "guest", "1001", 43, 10, TRUE, "published"),
        PerfReview("g1", "guest", "1001", 45, 10, TRUE, "published")},
       {PerfReview("g2", "guest", "1001", 50, 16, FALSE, "published")},
       {PerfReview("g3", "guest", "1001", 30, 9, FALSE, "pending")},
       {PerfReview("g4", "guest", "1001", 30, 12, TRUE, "published")},
       {PerfReview("g5", "guest", "1001", 49, 10, FALSE, "published")},
       {PerfReview("g6", "guest", "1001", 43, 10, FALSE, "pending"),
        PerfReview("g6", "guest", "1001", 0, 10, FALSE, "pending")},
       {PerfReview("h1", "host", "1001", 10, 17, TRUE, "pending"),
        PerfReview("h1", "host", "1001", 50, 17, FALSE, "published")},
       {PerfReview("o1", "guest", "1002", 10, 18, TRUE, "pending"),
        PerfReview("o1", "guest", "1002", 50, 18, FALSE, "published")} >>

\* the place of a review ID in the list order
SlotOf(id) == CHOOSE k \in 1..Len(PerfPool) : \E r \in PerfPool[k] : r.id = id

ViewReview(id, type, propertyId, name, channel, rating, at, approved) ==
    [CanonicalBase EXCEPT !.id = id, !.type = type, !.propertyId = propertyId,
                          !.property = [@ EXCEPT !.id = propertyId, !.name = name],
                          !.channel = channel, !.overallRating = rating,
                          !.submittedAt = at, !.isApprovedForDisplay = approved]

\* canonical reviews as the fixture gives them: two of the same instant, two
\* of the same rating, one rated 0, over two properties and three channels
FilterPool ==
    {ViewReview("10001", "guest", "1001", "2B Shoreditch Heights - Modern Loft", "airbnb", 45, 15, TRUE),
     ViewReview("10003", "host", "1001", "2B Shoreditch Heights - Modern Loft", "airbnb", 50, 15, FALSE),
     ViewReview("10004", "guest", "1002", "Le Marais Studio - Charming Hideaway", "booking.com", 45, 12, TRUE),
     ViewReview("10005", "guest", "1002", "Le Marais Studio - Charming Hideaway", "direct", 30, 10, FALSE),
     ViewReview("10006", "guest", "1001", "2B Shoreditch Heights - Modern Loft", "booking.com", 0, 9, FALSE)}

\* the lists of up to MaxReviews different reviews of a pool
ListsOf(pool) ==
    UNION {{l \in [1..n -> pool] : \A i, j \in 1..n : l[i] = l[j] => i = j} : n \in 0..MaxReviews}

\* the criteria a caller of filterReviews passes
NoFilters ==
    [propertyId |-> UNDEFINED, channel |-> UNDEFINED, minRating |-> <<>>,
     type |-> UNDEFINED, approvedOnly |-> FALSE]

FilterCriteria ==
    [propertyId : {UNDEFINED, "1001", "1002"},
     channel : {UNDEFINED, "airbnb", "booking.com"},
     minRating : {<<>>, <<0>>, <<45>>},
     type : {UNDEFINED, "all", "guest", "host"},
     approvedOnly : BOOLEAN]

\* criteria with nothing but a property ID or nothing but a channel
SingleCriteria ==
    {[NoFilters EXCEPT !.propertyId = p] : p \in {"1001", "1002"}}
    \cup {[NoFilters EXCEPT !.channel = c] : c \in {"airbnb", "booking.com"}}

\* useState<ReviewFilters>({ type: 'all' }) and useState<ReviewSort>({ field: 'date', order: 'desc' })
DefaultFilters == [NoFilters EXCEPT !.type = "all"]
DefaultSort == [field |-> "date", order |-> "desc"]

\* what the filter bar sets: no criterion, one of each kind, or all together
DashboardCriteria ==
    {DefaultFilters,
     [DefaultFilters EXCEPT !.propertyId = "1001"],
     [DefaultFilters EXCEPT !.channel = "airbnb"],
     [DefaultFilters EXCEPT !.minRating = <<40>>],
     [DefaultFilters EXCEPT !.type = "guest"],
     [DefaultFilters EXCEPT !.approvedOnly = TRUE],
     [propertyId |-> "1001", channel |-> "airbnb", minRating |-> <<40>>,
      type |-> "guest", approvedOnly |-> TRUE]}

SortSpecs == [field : {"date", "rating", "property", "channel"}, order : {"asc", "desc"}]

\* the reviews GET /api/reviews/hostaway answers the dashboard's fetch with:
\* normalized against an empty approved set (none approved) and sorted,
\* latest first
ServerPool ==
    {[r EXCEPT !.isApprovedForDisplay = FALSE] : r \in {q \in FilterPool : q.overallRating > 0}}

ServerAnswers == {SortByDateDesc(l) : l \in ListsOf(ServerPool)}

\* the most cards the dashboard shows
MaxCards == 2

\* a card per review the server can answer with; before the first toggle a
\* card has isApproved = review.isApprovedForDisplay (false) and
\* isUpdating = false (ReviewCard.tsx lines 34-35)
CardIds == {r.id : r \in ServerPool}

NoRun == [reviewId |-> "none"]

InitCards ==
    /\ cards = [id \in CardIds |-> [isApproved |-> FALSE, isUpdating |-> FALSE]]
    /\ cardRequests = [id \in CardIds |-> <<>>]
    /\ cardDone = NoRun

InitUtil ==
    /\ envelope = [status |-> "success", message |-> UNDEFINED, result |-> <<>>]
    /\ nout = NoOutput
    /\ dashReviews = <<>>
    /\ perf = calculatePropertyPerformance(<<>>, TargetProperty)
    /\ dashFilters = DefaultFilters
    /\ dashSort = DefaultSort
    /\ selectedPropertyId = NULL
    /\ dashFilteredReviews = <<>>
    /\ InitCards

\* two calls with the same arguments, the second at `later`
CallNormalizeReview(review, approvedIds, now, later) ==
    /\ nout = NoOutput
    /\ now <= later
    /\ nout' = [op |-> "normalizeReview", review |-> review, approvedIds |-> approvedIds,
                now |-> now, later |-> later,
                result |-> normalizeReview(review, approvedIds, now),
                again |-> normalizeReview(review, approvedIds, later)]
    /\ UNCHANGED <<envelope, dashReviews, perf, viewVars, cardVars, memVars, fileVars, localVars>>

\* the provider's answer grows by a record
ProviderAddsReview(review) ==
    /\ Len(envelope.result) < MaxReviews
    /\ envelope' = [envelope EXCEPT !.result = Append(@, review)]
    /\ nout' = NoOutput
    /\ UNCHANGED <<dashReviews, perf, viewVars, cardVars, memVars, fileVars, localVars>>

\* the provider's answer succeeds or fails, with or without a message
ProviderSetsStatus(status, message) ==
    /\ envelope' = [envelope EXCEPT !.status = status, !.message = message]
    /\ nout' = NoOutput
    /\ UNCHANGED <<dashReviews, perf, viewVars, cardVars, memVars, fileVars, localVars>>

CallNormalizeHostawayResponse(approvedIds, now) ==
    /\ nout' = [op |-> "normalizeHostawayResponse", approvedIds |-> approvedIds,
                now |-> now,
                result |-> normalizeHostawayResponse(envelope, approvedIds, now)]
    /\ UNCHANGED <<envelope, dashReviews, perf, viewVars, cardVars, memVars, fileVars, localVars>>

\* the caller is done with the result
DropResult ==
    /\ nout # NoOutput
    /\ nout' = NoOutput
    /\ UNCHANGED <<envelope, dashReviews, perf, viewVars, cardVars, memVars, fileVars, localVars>>

\* DashboardPage: the review list is set anew (lines 137, 206) and the
\* performance is recomputed from it (the useMemo of lines 154-158)
UpdateReviews(list) ==
    /\ dashReviews' = list
    /\ perf' = calculatePropertyPerformance(list, TargetProperty)
    /\ dashFilteredReviews' = FilteredReviews(list, dashFilters, dashSort, selectedPropertyId)
    /\ UNCHANGED <<dashFilters, dashSort, selectedPropertyId>>
    /\ UNCHANGED <<envelope, nout, memVars, fileVars, localVars>>

\* the list is set by the page itself: no card's state changes
SetReviews(list) ==
    /\ UpdateReviews(list)
    /\ UNCHANGED cardVars

\* the list gains a review, at its place in the list order
AddReview(r) ==
    /\ \A i \in 1..Len(dashReviews) : dashReviews[i].id # r.id
    /\ LET k == Cardinality({i \in 1..Len(dashReviews) : SlotOf(dashReviews[i].id) < SlotOf(r.id)})
       IN SetReviews(SubSeq(dashReviews, 1, k) \o <<r>> \o SubSeq(dashReviews, k + 1, Len(dashReviews)))

\* the list loses its i-th review
RemoveReview(i) ==
    /\ i \in 1..Len(dashReviews)
    /\ SetReviews(SubSeq(dashReviews, 1, i - 1) \o SubSeq(dashReviews, i + 1, Len(dashReviews)))

\* the i-th review comes back with another content
ChangeReview(i, r) ==
    /\ i \in 1..Len(dashReviews)
    /\ r.id = dashReviews[i].id
    /\ r # dashReviews[i]
    /\ SetReviews([dashReviews EXCEPT ![i] = r])

\* the fetch on mount answers (lines 130-151): data.success, setReviews(data.reviews)
FetchReviews(reviews) ==
    /\ dashReviews = <<>>
    /\ SetReviews(reviews)

\* prev.map(r => r.id === reviewId ? { ...r, isApprovedForDisplay: approved } : r)
ApprovalChanged(prev, reviewId, approved) ==
    [i \in 1..Len(prev) |->
       IF prev[i].id = reviewId
       THEN [prev[i] EXCEPT !.isApprovedForDisplay = approved]
       ELSE prev[i]]

\* handleApprovalChange (lines 205-209)
handleApprovalChange(reviewId, approved) ==
    SetReviews(ApprovalChanged(dashReviews, reviewId, approved))

(***************************************************************************)
(* ReviewCard (src/components/reviews/ReviewCard.tsx).  The dashboard      *)
(* renders a card per review of its view; a card starts with               *)
(* isApproved = review.isApprovedForDisplay, which is false for every      *)
(* review the fetch brings, and isUpdating = false.                        *)
(***************************************************************************)
\* faulty variant: the switch is not disabled while the card is updating
handleApprovalToggleEnabled(reviewId, checked) ==
    /\ \E i \in 1..Len(dashFilteredReviews) : dashFilteredReviews[i].id = reviewId
    /\ checked = ~cards[reviewId].isApproved
    /\ cards' = [cards EXCEPT ![reviewId] = [isApproved |-> checked, isUpdating |-> TRUE]]
    /\ cardRequests' = [cardRequests EXCEPT ![reviewId] = Append(@, checked)]
    /\ UNCHANGED <<cardDone, envelope, nout, dashReviews, perf, viewVars,
                   memVars, fileVars, localVars>>

\* the switch of a card of the view is clicked: it is not disabled (line 144)
\* and passes the opposite of its `checked` (line 142); handleApprovalToggle
\* runs to its await (lines 38-46)
handleApprovalToggle(reviewId, checked) ==
    /\ \E i \in 1..Len(dashFilteredReviews) : dashFilteredReviews[i].id = reviewId
    /\ ~cards[reviewId].isUpdating
    /\ checked = ~cards[reviewId].isApproved
    /\ cards' = [cards EXCEPT ![reviewId] = [isApproved |-> checked, isUpdating |-> TRUE]]
    /\ cardRequests' = [cardRequests EXCEPT ![reviewId] = Append(@, checked)]
    /\ UNCHANGED <<cardDone, envelope, nout, dashReviews, perf, viewVars,
                   memVars, fileVars, localVars>>

\* the fetch of the oldest request of a card settles and handleApprovalToggle
\* runs to its end (lines 48-58): the response is ok, or not ok, or the fetch
\* failed; onApprovalChange is the page's handleApprovalChange
ApprovalFetchSettles(reviewId, outcome) ==
    /\ cardRequests[reviewId] # <<>>
    /\ LET checked == Head(cardRequests[reviewId])
       IN /\ cards' = [cards EXCEPT ![reviewId] =
                          [isApproved |-> IF outcome = "ok" THEN @.isApproved ELSE ~checked,
                           isUpdating |-> FALSE]]
          /\ IF outcome = "ok"
             THEN /\ UpdateReviews(ApprovalChanged(dashReviews, reviewId, checked))
                  /\ cardDone' = [reviewId |-> reviewId, checked |-> checked,
                                  outcome |-> outcome,
                                  onApprovalChange |->
                                      <<[reviewId |-> reviewId, approved |-> checked]>>]
             ELSE /\ cardDone' = [reviewId |-> reviewId, checked |-> checked,
                                  outcome |-> outcome, onApprovalChange |-> <<>>]
                  /\ UNCHANGED <<dashReviews, perf, viewVars, envelope, nout,
                                 memVars, fileVars, localVars>>
    /\ cardRequests' = [cardRequests EXCEPT ![reviewId] = Tail(@)]

NextCard ==
    \/ /\ dashReviews = <<>>
       /\ \E reviews \in {l \in ServerAnswers : Len(l) <= MaxCards} : FetchReviews(reviews)
    \/ \E reviewId \in CardIds, checked \in BOOLEAN : handleApprovalToggle(reviewId, checked)
    \/ \E reviewId \in CardIds, outcome \in {"ok", "notOk", "failed"} :
          ApprovalFetchSettles(reviewId, outcome)

\* the filter, sort or selection state is set and the memo of lines 161-202
\* is computed anew
SetView(newFilters, newSort, selected) ==
    /\ dashFilters' = newFilters
    /\ dashSort' = newSort
    /\ selectedPropertyId' = selected
    /\ dashFilteredReviews' = FilteredReviews(dashReviews, newFilters, newSort, selected)
    /\ UNCHANGED <<envelope, nout, dashReviews, perf, cardVars, memVars, fileVars, localVars>>

\* onFiltersChange={setFilters}
SetFilters(newFilters) ==
    /\ newFilters # dashFilters
    /\ SetView(newFilters, dashSort, selectedPropertyId)

\* onSortChange={setSort}
SetSort(newSort) ==
    /\ newSort # dashSort
    /\ SetView(dashFilters, newSort, selectedPropertyId)

\* a property card is clicked (lines 337-342): selected, or unselected if it
\* was the selected one
SelectProperty(id) ==
    SetView(dashFilters, dashSort, IF selectedPropertyId = id THEN NULL ELSE id)

\* resetFilters (lines 212-216)
resetFilters ==
    /\ <<dashFilters, dashSort, selectedPropertyId>> # <<DefaultFilters, DefaultSort, NULL>>
    /\ SetView(DefaultFilters, DefaultSort, NULL)

\* filterReviews is called on a list, and again on what it returned
CallFilterReviews(reviews, filters) ==
    /\ nout = NoOutput
    /\ nout' = [op |-> "filterReviews", reviews |-> reviews, applied |-> <<filters>>,
                result |-> filterReviews(reviews, filters)]
    /\ UNCHANGED <<envelope, dashReviews, perf, viewVars, cardVars, memVars, fileVars, localVars>>

CallFilterReviewsAgain(filters) ==
    /\ nout # NoOutput
    /\ nout.op = "filterReviews"
    /\ Len(nout.applied) = 1
    /\ nout.applied[1] \in SingleCriteria
    /\ nout' = [nout EXCEPT !.applied = Append(@, filters),
                            !.result = filterReviews(@, filters)]
    /\ UNCHANGED <<envelope, dashReviews, perf, viewVars, cardVars, memVars, fileVars, localVars>>

NextFilter ==
    \/ /\ nout = NoOutput
       /\ \E reviews \in ListsOf(FilterPool), filters \in FilterCriteria :
             CallFilterReviews(reviews, filters)
    \/ \E filters \in SingleCriteria : CallFilterReviewsAgain(filters)
    \/ DropResult

NextView ==
    \/ /\ dashReviews = <<>>
       /\ \E reviews \in ServerAnswers : FetchReviews(reviews)
    \* a review card of the list reports its change
    \/ \E i \in 1..Len(dashReviews), approved \in BOOLEAN :
          handleApprovalChange(dashReviews[i].id, approved)
    \/ \E newFilters \in DashboardCriteria : SetFilters(newFilters)
    \/ \E newSort \in SortSpecs : SetSort(newSort)
    \/ \E id \in {"1002"} : SelectProperty(id)
    \/ resetFilters

NextPerf ==
    \/ \E k \in 1..Len(PerfPool) : \E r \in PerfPool[k] : AddReview(r)
    \/ \E i \in 1..Len(PerfPool) : RemoveReview(i)
    \/ \E i \in 1..Len(PerfPool) : \E k \in 1..Len(PerfPool) : \E r \in PerfPool[k] :
          ChangeReview(i, r)

NextReview ==
    \/ \E review \in RawReviews, approvedIds \in ApprovedIdSets,
          now \in NormalizerClock, later \in NormalizerClock :
             CallNormalizeReview(review, approvedIds, now, later)
    \/ DropResult

NextBatch ==
    \/ \E review \in EnvelopePool : ProviderAddsReview(review)
    \/ \E status \in {"success", "fail"},
          message \in {UNDEFINED, "", "Rate limit exceeded"} :
             ProviderSetsStatus(status, message)
    \/ \E approvedIds \in ApprovedIdSets, now \in NormalizerClock :
          CallNormalizeHostawayResponse(approvedIds, now)

(***************************************************************************)
(* The server process.                                                     *)
(***************************************************************************)
M == [store |-> store, heap |-> heap]

NoCall == [op |-> "none"]

InitMem ==
    /\ store = [approvedReviewIds |-> "initial", lastUpdated |-> 0, initialized |-> FALSE]
    /\ heap = [r \in Refs |-> <<>>]
    /\ held = NULL
    /\ normalized = <<>>
    /\ pc = [p \in Requests |-> "idle"]
    /\ out = NoCall
    /\ lastSet = [i \in ReviewIds |-> "none"]

\* a request reaches the POST handler, which awaits request.json()
PostArrive(p) ==
    /\ pc[p] = "idle"
    /\ pc' = [pc EXCEPT ![p] = "awaitJson"]
    /\ UNCHANGED <<store, heap, held, normalized, out, lastSet, fileVars, localVars, utilVars>>

\* request.json() settles and the handler runs to its response
PostResolve(p, body) ==
    /\ pc[p] = "awaitJson"
    /\ \E now \in ClockReadings(initializeStore(M)) :
         LET r == POST(M, body, now)
         IN /\ store' = r.m.store
            /\ heap' = r.m.heap
            /\ out' = [op |-> "POST", req |-> p, body |-> body, response |-> r.response]
            /\ lastSet' = IF r.response.status = 200
                          THEN [lastSet EXCEPT ![body.reviewId] = body.approved]
                          ELSE lastSet
    /\ pc' = [pc EXCEPT ![p] = "idle"]
    /\ UNCHANGED <<held, normalized, fileVars, localVars, utilVars>>

ApproveGet ==
    LET r == GET(M)
    IN /\ store' = r.m.store
       /\ heap' = r.m.heap
       /\ out' = [op |-> "GET", response |-> r.response]
       /\ UNCHANGED <<held, normalized, pc, lastSet, fileVars, localVars, utilVars>>

\* the exported store functions, called by any code of the process
CallGetApprovedReviewIds ==
    LET r == getApprovedReviewIds(M)
    IN /\ store' = r.m.store
       /\ heap' = r.m.heap
       /\ out' = [op |-> "getApprovedReviewIds", ids |-> r.result]
       /\ UNCHANGED <<held, normalized, pc, lastSet, fileVars, localVars, utilVars>>

CallIsReviewApproved(reviewId) ==
    LET r == isReviewApproved(M, reviewId)
    IN /\ store' = r.m.store
       /\ heap' = r.m.heap
       /\ out' = [op |-> "isReviewApproved", reviewId |-> reviewId, has |-> r.result]
       /\ UNCHANGED <<held, normalized, pc, lastSet, fileVars, localVars, utilVars>>

CallSetReviewApproval(reviewId, approved) ==
    /\ \E now \in ClockReadings(initializeStore(M)) :
         LET m1 == setReviewApproval(M, reviewId, approved, now)
         IN /\ store' = m1.store
            /\ heap' = m1.heap
    /\ out' = [op |-> "setReviewApproval", reviewId |-> reviewId, approved |-> approved,
               \* history: the Set before this call, and whether the call before
               \* this one was the same call
               before |-> Contents(initializeStore(M)),
               again |-> /\ out.op = "setReviewApproval"
                         /\ out.reviewId = reviewId
                         /\ out.approved = approved]
    /\ lastSet' = [lastSet EXCEPT ![reviewId] = IF approved THEN "true" ELSE "false"]
    /\ UNCHANGED <<held, normalized, pc, fileVars, localVars, utilVars>>

CallGetApprovedIdsSet ==
    LET r == getApprovedIdsSet(M)
    IN /\ store' = r.m.store
       /\ heap' = r.m.heap
       /\ held' = r.result
       /\ out' = [op |-> "getApprovedIdsSet"]
       /\ UNCHANGED <<normalized, pc, lastSet, fileVars, localVars, utilVars>>

\* the caller changes the Set it was given
MutateHeld(reviewId, add) ==
    /\ held # NULL
    /\ heap' = [heap EXCEPT ![held] = IF add THEN SetAdd(@, reviewId) ELSE SetDelete(@, reviewId)]
    /\ out' = [op |-> "mutateHeld"]
    /\ UNCHANGED <<store, held, normalized, pc, lastSet, fileVars, localVars, utilVars>>

\* the caller normalizes the provider's reviews with the Set it was given
NormalizeWithHeld ==
    /\ held # NULL
    /\ \E now \in NormalizerClock :
         normalized' = normalizeHostawayResponse(MockReviews, heap[held], now).reviews
    /\ out' = [op |-> "normalize"]
    /\ UNCHANGED <<store, heap, held, pc, lastSet, fileVars, localVars, utilVars>>

HostawayGet(propertyId, type) ==
    /\ \E now \in NormalizerClock :
         out' = [op |-> "GET hostaway",
                 response |-> HostawayGET(propertyId, UNDEFINED, type, <<>>, now)]
    /\ UNCHANGED <<store, heap, held, normalized, pc, lastSet, fileVars, localVars, utilVars>>

RenderPropertyPage(id) ==
    /\ \E now \in NormalizerClock :
         out' = [op |-> "page", page |-> PropertyPage(id, now)]
    /\ UNCHANGED <<store, heap, held, normalized, pc, lastSet, fileVars, localVars, utilVars>>

\* the server process: no browser, and the file-backed cache not in use
Init ==
    /\ InitMem
    /\ InitUtil
    /\ InitFile /\ file = Missing
    /\ InitLocal /\ isBrowser = FALSE

\* the file-backed cache: the storage file is the bundled snapshot, or absent
\* (/tmp on a cold start)
InitFileBacked ==
    /\ InitMem
    /\ InitUtil
    /\ InitFile /\ file \in {Missing, seedData}
    /\ InitLocal /\ isBrowser = FALSE

\* the client-local store, called in a browser or while rendering on the server
InitClient ==
    /\ InitMem
    /\ InitUtil
    /\ InitFile /\ file = Missing
    /\ InitLocal /\ isBrowser \in BOOLEAN

\* the request handlers of the server process
Next ==
    \/ \E p \in Requests : PostArrive(p)
    \/ \E p \in Requests, body \in Bodies : PostResolve(p, body)
    \/ ApproveGet
    \/ \E propertyId \in {UNDEFINED, "1001"}, type \in {UNDEFINED, "guest"} :
          HostawayGet(propertyId, type)
    \/ \E id \in {"1001", "1002", "9999"} : RenderPropertyPage(id)

Spec == Init /\ [][Next]_vars

\* the exported functions of approval-store.ts under any caller
NextStore ==
    \/ CallGetApprovedReviewIds
    \/ \E reviewId \in ReviewIds : CallIsReviewApproved(reviewId)
    \/ \E reviewId \in ReviewIds, approved \in BOOLEAN : CallSetReviewApproval(reviewId, approved)
    \/ CallGetApprovedIdsSet
    \/ \E reviewId \in ReviewIds, add \in BOOLEAN : MutateHeld(reviewId, add)
    \/ NormalizeWithHeld

SpecStore == Init /\ [][NextStore]_vars

SpecFile == InitFileBacked /\ [][NextFile]_vars

SpecLocal == InitClient /\ [][NextLocal]_vars

\* normalizeReview under any caller
SpecReview == Init /\ [][NextReview]_vars

\* normalizeHostawayResponse on the provider's answers
SpecBatch == Init /\ [][NextBatch]_vars

\* calculatePropertyPerformance on the dashboard's review list
SpecPerf == Init /\ [][NextPerf]_vars

\* filterReviews under any caller
SpecFilter == Init /\ [][NextFilter]_vars

\* the dashboard's view of the reviews it fetched
SpecView == Init /\ [][NextView]_vars

\* the review cards of the dashboard and their approval requests
SpecCard == Init /\ [][NextCard]_vars


(***************************************************************************)
(* Properties.                                                             *)
(***************************************************************************)
StoreIds == heap[store.approvedReviewIds]

NoDuplicates(s) == Cardinality(Range(s)) = Len(s)

\* what the history of setReviewApproval calls says about an ID
ApprovedByHistory(id) ==
    IF lastSet[id] = "none" THEN id \in Range(SeedApprovedIds) ELSE lastSet[id] = "true"

AbstractIds == {id \in ReviewIds : ApprovedByHistory(id)}

\* C1: in every state the in-memory store can reach, isReviewApproved(id) is
\* true and getApprovedReviewIds() contains id exactly when the latest
\* setReviewApproval for id had approved = true or, with no call for id,
\* exactly when id is in the seed snapshot.
C1_StoreReflectsLatestSet ==
    \A id \in ReviewIds :
        /\ isReviewApproved(M, id).result = ApprovedByHistory(id)
        /\ SetHas(getApprovedReviewIds(M).result, id) = ApprovedByHistory(id)

\* a seed ID was unapproved, another ID approved, and the list was read
C1_Witness ==
    /\ lastSet["10001"] = "false"
    /\ lastSet["10002"] = "true"
    /\ out.op = "getApprovedReviewIds"
    /\ out.ids = <<"10002">>

StoreReadStep ==
    \/ CallGetApprovedReviewIds
    \/ \E reviewId \in ReviewIds : CallIsReviewApproved(reviewId)
    \/ CallGetApprovedIdsSet

\* C2: the store is seeded from the snapshot by the first store operation and
\* never again: the step that initializes it leaves the seed (changed only by
\* that step's own setReviewApproval); from then on it stays initialized with
\* the same Set object, a get/has call changes neither the IDs nor the stamp,
\* and a set call changes the membership of no ID but its own.
C2_SeededOnce ==
    [][/\ (~store.initialized /\ StoreReadStep)
            => /\ store'.initialized
               /\ StoreIds' = SeedApprovedIds
               /\ store'.lastUpdated = SeedLastUpdated
       /\ store.initialized
            => /\ store'.initialized
               /\ store'.approvedReviewIds = store.approvedReviewIds
               /\ StoreReadStep
                    => (StoreIds' = StoreIds /\ store'.lastUpdated = store.lastUpdated)
               /\ \A id \in ReviewIds, a \in BOOLEAN :
                    CallSetReviewApproval(id, a)
                      => \A j \in ReviewIds \ {id} : SetHas(StoreIds', j) = SetHas(StoreIds, j)
      ]_vars

\* the seed ID is gone, an added ID is there, and a has call came after both
C2_Witness ==
    /\ store.initialized
    /\ ~SetHas(StoreIds, "10001")
    /\ SetHas(StoreIds, "10002")
    /\ out.op = "isReviewApproved"

\* C3: after setReviewApproval(id, a), isReviewApproved(id) = a; when the call
\* repeats the call just before it, the approved-ID Set is what the first call
\* left: same elements, same size, no element twice.
C3_SetIdempotent ==
    out.op = "setReviewApproval"
      => /\ isReviewApproved(M, out.reviewId).result = out.approved
         /\ NoDuplicates(StoreIds)
         /\ out.again => (StoreIds = out.before /\ Len(StoreIds) = Len(out.before))

\* after the seed ID was unapproved, an approval was set twice in a row
C3_Witness ==
    /\ out.op = "setReviewApproval"
    /\ out.again
    /\ out.approved
    /\ lastSet["10001"] = "false"

\* the request is one the route must reject as invalid input: no reviewId
\* (no body to read one from, the body null, the field absent or ''), or an
\* approved that is not the boolean true or false
InvalidInput(body) ==
    \/ body.kind # "object"
    \/ body.reviewId \in {UNDEFINED, ""}
    \/ body.approved \notin {"true", "false"}

\* C4: a POST approval request whose reviewId is absent or empty, or whose
\* approved is not a strict boolean, is answered 400 and leaves the store's ID
\* set and last-updated stamp as they were.
C4_InvalidInputRejected ==
    [][\A p \in Requests, body \in Bodies :
          (PostResolve(p, body) /\ InvalidInput(body))
            => /\ out'.response.status = 400
               /\ store' = store
               /\ heap' = heap
      ]_vars

AllReviews ==
    normalizeHostawayResponse(MockReviews, <<>>, CHOOSE now \in NormalizerClock : TRUE).reviews

\* C5: once a POST approval request for a review has succeeded with approved = a,
\* a later GET /api/reviews/hostaway reports that review with
\* isApprovedForDisplay = a.
C5_ReadAfterWrite ==
    [][\A propertyId \in {UNDEFINED, "1001"}, type \in {UNDEFINED, "guest"} :
          HostawayGet(propertyId, type)
            => LET reviews == out'.response.body.reviews
               IN \A i \in 1..Len(reviews) :
                     (reviews[i].id \in ReviewIds /\ lastSet[reviews[i].id] # "none")
                       => reviews[i].isApprovedForDisplay = (lastSet[reviews[i].id] = "true")
      ]_vars

\* C6: whatever the interleaving of the POST requests in flight, the step that
\* serves one applies exactly its own add or remove to the ID set the accepted
\* mutations before it left, reports the size of the set it leaves, and
\* disturbs no other request; a rejected request changes nothing.
C6_PostMutationAtomic ==
    [][\A p \in Requests :
          (pc[p] # pc'[p] /\ \E body \in Bodies : PostResolve(p, body))
            => /\ \A q \in Requests \ {p} : pc'[q] = pc[q]
               /\ IF out'.response.status = 200
                  THEN /\ Range(StoreIds') =
                            IF out'.response.approved
                            THEN AbstractIds \cup {out'.response.reviewId}
                            ELSE AbstractIds \ {out'.response.reviewId}
                       /\ NoDuplicates(StoreIds')
                       /\ out'.response.totalApproved = Cardinality(Range(StoreIds'))
                  ELSE store' = store /\ heap' = heap
      ]_vars

\* a request was served while another was in flight, after both IDs had changed
C6_Witness ==
    /\ out.op = "POST"
    /\ out.response.status = 200
    /\ \E q \in Requests \ {out.req} : pc[q] = "awaitJson"
    /\ lastSet["10001"] = "false"
    /\ lastSet["10002"] = "true"

\* C9: whenever a property page is rendered, the reviews on it are exactly the
\* guest-authored reviews of that property whose ID the store holds as
\* approved at that moment.
C9_PageShowsApproved ==
    [][\A id \in {"1001", "1002", "9999"} :
          RenderPropertyPage(id)
            => {out'.page.reviews[i].id : i \in 1..Len(out'.page.reviews)}
               = {AllReviews[i].id : i \in
                    {j \in 1..Len(AllReviews) :
                        /\ AllReviews[j].propertyId = id
                        /\ AllReviews[j].type = "guest"
                        /\ isReviewApproved(M, AllReviews[j].id).result}}
      ]_vars

\* C7: when the write inside saveApprovalData(d) fails, the call still returns
\* without raising, the cache is d, and a getApprovalData() called next
\* returns d (d being the data of the latest save).
C7_FailedWriteKeepsData ==
    (fout.op = "saveApprovalData" /\ ~fout.written /\ lastSaved = fout.data)
      => /\ ~fout.raised
         /\ approvalCache = fout.data

\* C8: the Set getApprovedIdsSet() returned and the reviews normalized with it
\* are not changed by a later setReviewApproval, and changing the returned Set
\* changes nothing of the store.
C8_SnapshotIndependent ==
    [][/\ \A id \in ReviewIds, a \in BOOLEAN :
            (CallSetReviewApproval(id, a) /\ held # NULL)
              => (heap'[held] = heap[held] /\ normalized' = normalized)
       /\ \A id \in ReviewIds, add \in BOOLEAN :
            MutateHeld(id, add) => (StoreIds' = StoreIds /\ store' = store)
      ]_vars

\* a snapshot is held, reviews were normalized with it, and the store has since
\* moved away from both
C8_Witness ==
    /\ held # NULL
    /\ Range(heap[held]) # Range(StoreIds)
    /\ normalized # <<>>
    /\ \E i \in 1..Len(normalized) :
          /\ normalized[i].isApprovedForDisplay
          /\ ~SetHas(StoreIds, normalized[i].id)
          /\ SetHas(heap[held], normalized[i].id)


\* what the history of toggleReviewApproval calls says about an ID
ToggledByHistory(id) ==
    IF toggled[id] = "none" THEN id \in Range(SeedApprovedIds) ELSE toggled[id] = "true"

\* C10: each backing reports the abstract set that starts at the seed and
\* applies the approve/unapprove operations made on it, in order: the
\* in-memory store after its setReviewApproval calls, the file-backed cache
\* after its saves, the client-local store (in a browser) after its toggles.
C10_UniformContract ==
    /\ Range(getApprovedReviewIds(M).result) = AbstractIds
    /\ approvalCache # Nothing
         => approvalCache.approvedReviewIds =
              (IF lastSaved = Nothing THEN seedData ELSE lastSaved).approvedReviewIds
    /\ isBrowser
         => Range(getApprovedReviewIdsLocal(localStorage, isBrowser))
              = {id \in ReviewIds : ToggledByHistory(id)}


\* what a failed envelope is answered with, but for the error text
FailedResult(error) ==
    [success |-> FALSE,
     reviews |-> <<>>,
     meta |-> [total |-> 0, properties |-> <<>>, channels |-> <<>>,
               dateRange |-> [earliest |-> "", latest |-> ""]],
     error |-> error]

\* C11 as stated: a failed envelope that has a message is answered with
\* success=false, no reviews, total 0, no properties, no channels, an
\* empty-string date range and the provider's message as the error, whatever
\* its result list holds.
C11_FailedEnvelopePassesMessage ==
    (/\ nout.op = "normalizeHostawayResponse"
     /\ envelope.status # "success"
     /\ envelope.message # UNDEFINED)
      => nout.result = FailedResult(envelope.message)

\* C11 as amended: a failed envelope is answered with success=false, no
\* reviews, total 0, no properties, no channels, an empty-string date range
\* and as the error the provider's message when it has a non-empty one, the
\* text 'Failed to fetch reviews' otherwise; none of its records is
\* normalized, whatever its result list holds.
C11_FailedEnvelopeShortCircuits ==
    (nout.op = "normalizeHostawayResponse" /\ envelope.status # "success")
      => nout.result = FailedResult(IF envelope.message \in {UNDEFINED, ""}
                                    THEN "Failed to fetch reviews"
                                    ELSE envelope.message)

\* a failed envelope with a message and with records, one of which
\* normalizeReview would throw on, has been normalized
C11_Witness ==
    /\ nout.op = "normalizeHostawayResponse"
    /\ envelope.status = "fail"
    /\ envelope.message = "Rate limit exceeded"
    /\ Len(envelope.result) >= 2
    /\ \E i \in 1..Len(envelope.result) : envelope.result[i].listingName = UNDEFINED
    /\ nout.result.error = "Rate limit exceeded"

\* the one-to-one assignments of output positions to input positions
Bijections(n) ==
    {p \in [1..n -> 1..n] : \A i, j \in 1..n : i # j => p[i] # p[j]}

\* C12: for a successful envelope the reviews returned are the normalized
\* inputs, each once, latest submission instant first, and two reviews of the
\* same instant stand in their input order.
C12_SortedStablePermutation ==
    (/\ nout.op = "normalizeHostawayResponse"
     /\ envelope.status = "success"
     /\ nout.result # Thrown)
      => LET input == MappedReviews(envelope, nout.approvedIds, nout.now)
             output == nout.result.reviews
             n == Len(input)
         IN /\ Len(output) = n
            /\ \E p \in Bijections(n) :
                  /\ \A i \in 1..n : output[i] = input[p[i]]
                  /\ \A i, j \in 1..n :
                        i < j => \/ output[i].submittedAt > output[j].submittedAt
                                 \/ /\ output[i].submittedAt = output[j].submittedAt
                                    /\ p[i] < p[j]

\* three reviews were sorted: two of the same instant, and a later one that
\* came after them in the input
C12_Witness ==
    /\ nout.op = "normalizeHostawayResponse"
    /\ envelope.status = "success"
    /\ nout.result # Thrown
    /\ Len(nout.result.reviews) = 3
    /\ nout.result.reviews[2].submittedAt = nout.result.reviews[3].submittedAt
    /\ nout.result.reviews[2].id # nout.result.reviews[3].id
    /\ nout.result.reviews[1].id = ToString(envelope.result[3].id)

\* C13: two calls of normalizeReview with the same raw review and the same
\* approved-ID set return canonical reviews equal in every field, the
\* submission instant included.
C13_NormalizeDeterministic ==
    nout.op = "normalizeReview" => nout.result = nout.again

\* C14: normalizeReview raises for no raw review, and the canonical review it
\* returns carries the fallbacks: initials '??' for a missing or empty
\* reviewer name, the placeholder short name for a missing or empty listing
\* name, no categories for a missing category list, a generated display name
\* for an unknown category, channel 'direct' for a missing channel.
C14_NormalizeNeverRaises ==
    nout.op = "normalizeReview"
      => /\ nout.result # Thrown
         /\ nout.review.guestName \in {UNDEFINED, ""} => nout.result.reviewerInitials = "??"
         /\ nout.review.listingName \in {UNDEFINED, ""}
              => nout.result.property.shortName = "Unknown Property"
         /\ nout.review.reviewCategory = <<>> => nout.result.categories = <<>>
         /\ \A i \in 1..Len(nout.result.categories) :
               nout.result.categories[i].name = "pet_friendliness"
                 => nout.result.categories[i].displayName = "Pet friendliness"
         /\ nout.review.channelName = UNDEFINED => nout.result.channel = "direct"

\* C15: for a raw review whose submission timestamp cannot be parsed, the
\* canonical submittedAt is the current instant and submittedAtFormatted is
\* the raw timestamp string unchanged.
C15_UnparseableTimestamp ==
    (/\ nout.op = "normalizeReview"
     /\ nout.result # Thrown
     /\ ParseDate(nout.review.submittedAt) = <<>>)
      => /\ nout.result.submittedAt = nout.now
         /\ nout.result.submittedAtFormatted = nout.review.submittedAt

\* C16: the canonical overall rating is the provider's rating whenever there
\* is one, 0 included; without one it is 0 when there is no category rating
\* and else the mean of the category ratings, halved and rounded to one
\* decimal (in tenths: 5 * sum / n rounded to the nearest integer, a half
\* upward), so that category ratings 8 and 6 give 3.5.
C16_OverallRating ==
    (nout.op = "normalizeReview" /\ nout.result # Thrown)
      => LET categories == nout.review.reviewCategory[1]
             n == Len(categories)
         IN /\ nout.result.overallRating =
                 IF nout.review.rating # <<>> THEN nout.review.rating[1]
                 ELSE IF n = 0 THEN 0
                 ELSE (10 * SumRatings(categories) + n) \div (2 * n)
            /\ (/\ nout.review.rating = <<>>
                /\ n = 2 /\ categories[1].rating = 8 /\ categories[2].rating = 6)
                 => nout.result.overallRating = 35

\* a rating of 0 was passed through although the review has category ratings
C16_Witness ==
    /\ nout.op = "normalizeReview"
    /\ nout.result # Thrown
    /\ nout.review.rating = <<0>>
    /\ Len(nout.review.reviewCategory[1]) = 3
    /\ nout.result.overallRating = 0

\* the guest-authored reviews of the target property in a list, in list order
GuestReviewsOfTarget(list) ==
    LET keep == {i \in 1..Len(list) :
                    list[i].type = "guest" /\ list[i].propertyId = TargetProperty.id}
        Nth(k) == CHOOSE i \in keep : Cardinality({j \in keep : j < i}) = k - 1
    IN [k \in 1..Cardinality(keep) |-> list[Nth(k)]]

\* C17: property performance ignores host-authored reviews and reviews of
\* other properties: a step that adds, removes or changes only such reviews
\* (the guest-authored reviews of the target property stay as they are, in
\* their order) leaves every field of the performance record unchanged.
C17_HostAndOtherPropertyIgnored ==
    [][GuestReviewsOfTarget(dashReviews') = GuestReviewsOfTarget(dashReviews)
         => perf' = perf]_vars

\* a list with a host review of the target, a review of another property and
\* two guest reviews of the target, of which the record counts the two
C17_Witness ==
    /\ \E i \in 1..Len(dashReviews) :
          dashReviews[i].type = "host" /\ dashReviews[i].propertyId = TargetProperty.id
    /\ \E i \in 1..Len(dashReviews) : dashReviews[i].propertyId # TargetProperty.id
    /\ Len(GuestReviewsOfTarget(dashReviews)) = 2
    /\ perf.totalReviews = 2

\* C18: when no guest-authored review matches the property, the performance
\* record has totalReviews 0, averageRating 0, approvedCount 0, pendingCount
\* 0, trend stable and empty rating-distribution, category-average and
\* channel-breakdown maps.
C18_NoMatchingReview ==
    Len(GuestReviewsOfTarget(dashReviews)) = 0
      => /\ perf.property = TargetProperty
         /\ perf.totalReviews = 0
         /\ perf.averageRating = 0
         /\ perf.approvedCount = 0
         /\ perf.pendingCount = 0
         /\ perf.recentTrend = "stable"
         /\ DOMAIN perf.ratingDistribution = {}
         /\ DOMAIN perf.categoryAverages = {}
         /\ DOMAIN perf.channelBreakdown = {}

\* the list holds an approved host review of the target and a review of
\* another property, and nothing matches
C18_Witness ==
    /\ Len(dashReviews) = 2
    /\ Len(GuestReviewsOfTarget(dashReviews)) = 0
    /\ \E i \in 1..Len(dashReviews) :
          dashReviews[i].type = "host" /\ dashReviews[i].isApprovedForDisplay
    /\ perf.totalReviews = 0

\* C19: with fewer than 4 matching guest-authored reviews the trend is
\* stable, whatever the ratings and the timestamps.
C19_FewReviewsStable ==
    Len(GuestReviewsOfTarget(dashReviews)) < 4 => perf.recentTrend = "stable"

\* three matching reviews, the newest rated 5.0 and the others 3.0
C19_Witness ==
    LET guests == GuestReviewsOfTarget(dashReviews)
    IN /\ Len(guests) = 3
       /\ \E i \in 1..3 : guests[i].overallRating = 50 /\ guests[i].submittedAt = 16
       /\ Cardinality({i \in 1..3 : guests[i].overallRating = 30}) = 2
       /\ perf.totalReviews = 3
       /\ perf.recentTrend = "stable"

\* the trend of four or more reviews, from the exact ratings in tenths: the
\* means of the two most recent and of the next two differ by more than 0.3
\* exactly when the sums differ by more than 6 tenths
ExactTrend(sorted) ==
    LET recent == sorted[1].overallRating + sorted[2].overallRating
        older == sorted[3].overallRating + sorted[4].overallRating
    IN IF recent - older > 6 THEN "up"
       ELSE IF older - recent > 6 THEN "down"
       ELSE "stable"

\* C20: with 4 or more matching guest reviews ordered by submission instant
\* descending, the trend is up exactly when the mean overall rating of the
\* 2 most recent exceeds the mean of the next 2 by strictly more than 0.3,
\* down exactly when it is lower by strictly more than 0.3, and stable
\* otherwise (a difference of exactly 0.3 is stable); reviews older than the
\* 4 most recent never change the trend.
C20_TrendByExactDifference ==
    LET guests == GuestReviewsOfTarget(dashReviews)
    IN Len(guests) >= 4 => perf.recentTrend = ExactTrend(SortByDateDesc(guests))

\* C21: filterReviews with no criteria set is the identity: the result has
\* the same elements as the review list, in the same order.
C21_NoCriteriaIdentity ==
    (nout # NoOutput /\ nout.op = "filterReviews" /\ nout.applied = <<NoFilters>>)
        => nout.result = nout.reviews

\* no criteria, on three reviews of different properties, channels and
\* directions, approved and not
C21_Witness ==
    /\ nout # NoOutput
    /\ nout.op = "filterReviews"
    /\ nout.applied = <<NoFilters>>
    /\ Len(nout.reviews) = 3
    /\ \E i, j \in 1..3 : /\ nout.reviews[i].propertyId # nout.reviews[j].propertyId
                           /\ nout.reviews[i].isApprovedForDisplay
                           /\ ~nout.reviews[j].isApprovedForDisplay
    /\ \E i \in 1..3 : nout.reviews[i].type = "host"
    /\ Len(nout.result) = 3

\* a review satisfies every criterion that is given: an absent criterion
\* (and the direction 'all') excludes nothing, a given minimum rating, 0
\* included, is an inclusive lower bound
Satisfies(review, criteria) ==
    /\ criteria.propertyId # UNDEFINED => review.propertyId = criteria.propertyId
    /\ criteria.channel # UNDEFINED => review.channel = criteria.channel
    /\ criteria.minRating # <<>> => review.overallRating >= criteria.minRating[1]
    /\ criteria.type \notin {UNDEFINED, "all"} => review.type = criteria.type
    /\ criteria.approvedOnly => review.isApprovedForDisplay

\* the places of a list whose reviews satisfy the criteria
Kept(reviews, criteria) == {i \in 1..Len(reviews) : Satisfies(reviews[i], criteria)}

\* C22: filterReviews returns exactly the reviews that satisfy every active
\* criterion, in their input relative order: the k-th review of the result
\* is the review at the k-th satisfying place of the input.
C22_ExactlyTheSatisfying ==
    (nout # NoOutput /\ nout.op = "filterReviews" /\ Len(nout.applied) = 1)
        => LET kept == Kept(nout.reviews, nout.applied[1])
           IN /\ Len(nout.result) = Cardinality(kept)
              /\ \A i \in kept :
                    nout.result[Cardinality({j \in kept : j <= i})] = nout.reviews[i]

\* a minimum rating of 4.5 with a property ID: a review rated exactly 4.5 is
\* kept, one follows a review that is dropped, and a minimum of 0 on a list
\* with a review rated 0
C22_Witness ==
    /\ nout # NoOutput
    /\ nout.op = "filterReviews"
    /\ Len(nout.applied) = 1
    /\ \/ /\ nout.applied[1].minRating = <<45>>
          /\ nout.applied[1].propertyId = "1001"
          /\ Len(nout.reviews) = 3
          /\ Len(nout.result) = 1
          /\ nout.result[1].overallRating = 45
          /\ nout.result[1] = nout.reviews[3]
       \/ /\ nout.applied[1].minRating = <<0>>
          /\ nout.applied[1].approvedOnly
          /\ \E i \in 1..Len(nout.reviews) : nout.reviews[i].overallRating = 0
          /\ Len(nout.result) = 1

\* C23: filtering by a property ID and then the result by a channel gives
\* the same list as filtering by the channel and then by the property ID,
\* and both equal filtering once by the two together.
C23_FilterCommutes ==
    (/\ nout # NoOutput
     /\ nout.op = "filterReviews"
     /\ Len(nout.applied) = 2
     /\ nout.applied[1].propertyId # UNDEFINED
     /\ nout.applied[2].channel # UNDEFINED)
        => /\ nout.result = filterReviews(filterReviews(nout.reviews, nout.applied[2]),
                                          nout.applied[1])
           /\ nout.result = filterReviews(nout.reviews,
                                [nout.applied[1] EXCEPT !.channel = nout.applied[2].channel])

\* by property ID and then by channel, where each of the two drops a review
\* the other keeps and one review passes both
C23_Witness ==
    /\ nout # NoOutput
    /\ nout.op = "filterReviews"
    /\ Len(nout.applied) = 2
    /\ nout.applied[1].propertyId = "1001"
    /\ nout.applied[2].channel = "booking.com"
    /\ Len(nout.reviews) = 3
    /\ Len(filterReviews(nout.reviews, nout.applied[1])) = 2
    /\ Len(filterReviews(nout.reviews, nout.applied[2])) = 2
    /\ Len(nout.result) = 1

\* what a sort field orders the reviews by; a string stands by its place in
\* the collation order
SortKey(review, field) ==
    CASE field = "date" -> review.submittedAt
      [] field = "rating" -> review.overallRating
      [] field = "property" -> LocaleRank(review.property.name)
      [] field = "channel" -> LocaleRank(review.channel)

\* the place of a review in a list of different reviews
PlaceIn(list, review) == CHOOSE i \in 1..Len(list) : list[i] = review

\* C24: the dashboard sort returns a permutation of its input (the filtered
\* reviews) ordered by the chosen field, ascending or, for desc, descending;
\* reviews that compare equal keep their relative input order in both
\* directions.
C24_SortStablePermutation ==
    LET input == DashboardFilter(dashReviews, dashFilters, selectedPropertyId)
        view == dashFilteredReviews
    IN /\ Len(view) = Len(input)
       /\ \A i \in 1..Len(input) : \E j \in 1..Len(view) : view[j] = input[i]
       /\ \A i, j \in 1..Len(view) :
             i < j =>
               LET ki == SortKey(view[i], dashSort.field)
                   kj == SortKey(view[j], dashSort.field)
               IN /\ dashSort.order = "asc" => ki <= kj
                  /\ dashSort.order = "desc" => ki >= kj
                  /\ ki = kj => PlaceIn(input, view[i]) < PlaceIn(input, view[j])

\* sorted by rating, descending: three reviews shown, two of the same rating
\* after a higher one that the input has between them
C24_Witness ==
    /\ dashSort = [field |-> "rating", order |-> "desc"]
    /\ Len(dashFilteredReviews) = 3
    /\ dashFilteredReviews[2].overallRating = dashFilteredReviews[3].overallRating
    /\ dashFilteredReviews[1].overallRating > dashFilteredReviews[2].overallRating
    /\ dashFilteredReviews # DashboardFilter(dashReviews, dashFilters, selectedPropertyId)

Reverse(list) == [i \in 1..Len(list) |-> list[Len(list) + 1 - i]]

\* C25: for a list with pairwise distinct submission instants, sorted by
\* date desc, sorting that result by date asc and reversing it yields the
\* date-desc result again.
C25_DescAscReverse ==
    (/\ dashSort = [field |-> "date", order |-> "desc"]
     /\ \A i, j \in 1..Len(dashFilteredReviews) :
           dashFilteredReviews[i].submittedAt = dashFilteredReviews[j].submittedAt => i = j)
        => Reverse(SortReviews(dashFilteredReviews, [field |-> "date", order |-> "asc"]))
             = dashFilteredReviews

\* three reviews of different instants shown, latest first
C25_Witness ==
    /\ dashSort = [field |-> "date", order |-> "desc"]
    /\ Len(dashFilteredReviews) = 3
    /\ dashFilteredReviews[1].submittedAt > dashFilteredReviews[2].submittedAt
    /\ dashFilteredReviews[2].submittedAt > dashFilteredReviews[3].submittedAt

\* the integer nearest to a rating given in tenths, a half upward
RoundedStars(rating) == (rating + 5) \div 10

\* C26: in a non-empty performance record, bucket k of the rating
\* distribution counts exactly the matching guest reviews whose overall
\* rating rounds to k; a review whose rounded rating is outside 1..5 is in
\* no bucket but counts in totalReviews, so the buckets sum to at most
\* totalReviews.
C26_BucketsCountRounded ==
    LET guests == GuestReviewsOfTarget(dashReviews)
    IN perf.totalReviews > 0 =>
         /\ perf.totalReviews = Len(guests)
         /\ DOMAIN perf.ratingDistribution = 1..5
         /\ \A k \in 1..5 :
               perf.ratingDistribution[k]
                 = Cardinality({i \in 1..Len(guests) : RoundedStars(guests[i].overallRating) = k})
         /\ perf.ratingDistribution[1] + perf.ratingDistribution[2] + perf.ratingDistribution[3]
              + perf.ratingDistribution[4] + perf.ratingDistribution[5] <= perf.totalReviews

\* three matching reviews rated 4.5, 3.0 and 0: one in bucket 5, one in
\* bucket 3 and the third in none
C26_Witness ==
    LET guests == GuestReviewsOfTarget(dashReviews)
    IN /\ Len(guests) = 3
       /\ {guests[i].overallRating : i \in 1..3} = {45, 30, 0}
       /\ perf.totalReviews = 3
       /\ perf.ratingDistribution[5] = 1
       /\ perf.ratingDistribution[3] = 1
       /\ perf.ratingDistribution[1] = 0

\* C27: in the result of a successful envelope, meta.dateRange.earliest and
\* meta.dateRange.latest are the minimum and the maximum submission instant
\* over the returned reviews (each is the instant of a review, and earliest
\* <= every review's instant <= latest); for an empty raw list the result
\* has total 0, no properties, no channels and both date-range fields equal
\* to the empty string.
C27_DateRangeMinMax ==
    (nout.op = "normalizeHostawayResponse" /\ envelope.status = "success")
        => /\ envelope.result = <<>> =>
                 /\ nout.result # Thrown
                 /\ nout.result.success
                 /\ nout.result.reviews = <<>>
                 /\ nout.result.meta = [total |-> 0, properties |-> <<>>, channels |-> <<>>,
                                        dateRange |-> [earliest |-> "", latest |-> ""]]
           /\ (envelope.result # <<>> /\ nout.result # Thrown) =>
                 LET reviews == nout.result.reviews
                     range == nout.result.meta.dateRange
                 IN /\ Len(reviews) = Len(envelope.result)
                    /\ \E i \in 1..Len(reviews) : reviews[i].submittedAt = range.earliest
                    /\ \E i \in 1..Len(reviews) : reviews[i].submittedAt = range.latest
                    /\ \A i \in 1..Len(reviews) :
                          range.earliest <= reviews[i].submittedAt
                            /\ reviews[i].submittedAt <= range.latest

\* three reviews returned, the earliest neither first nor last in the input
\* and the latest one whose timestamp was read from the clock
C27_Witness ==
    /\ nout.op = "normalizeHostawayResponse"
    /\ envelope.status = "success"
    /\ nout.result # Thrown
    /\ Len(nout.result.reviews) = 3
    /\ envelope.result[2].submittedAt = "2024-11-10 09:00:00"
    /\ envelope.result[3].submittedAt = "not a date"
    /\ nout.result.meta.dateRange.earliest = 10
    /\ nout.result.meta.dateRange.latest = nout.now

\* C28: the totalApproved of every approval response is the number of IDs
\* in the store's approved set at that moment: for a successful POST the
\* size of the set right after the request's own mutation, for GET the
\* length of the approvedReviewIds list of the same response.
C28_TotalApprovedIsSetSize ==
    /\ (out.op = "POST" /\ out.response.status = 200)
          => out.response.totalApproved = Cardinality(Range(StoreIds))
    /\ out.op = "GET"
          => /\ out.response.totalApproved = Len(out.response.approvedReviewIds)
             /\ out.response.totalApproved = Cardinality(Range(StoreIds))
             /\ Range(out.response.approvedReviewIds) = Range(StoreIds)

\* a POST that unapproved the seeded ID after another ID had been approved
C28_Witness ==
    /\ out.op = "POST"
    /\ out.response.status = 200
    /\ out.response.reviewId = "10001"
    /\ ~out.response.approved
    /\ lastSet["10002"] = "true"
    /\ out.response.totalApproved = 1

\* C29: once saveApprovalData(d) has set the cache, the cache stays d, and so
\* every getApprovalData() returns d, until the next save: no step other than
\* a call of saveApprovalData changes a cache that holds the saved data, and
\* a getApprovalData() that returns while it does returns d.
C29_SavedDataStands ==
    [][(/\ lastSaved # Nothing
        /\ approvalCache = lastSaved
        /\ ~\E c \in Calls, data \in ApprovalDataValues : SaveApprovalDataCall(c, data))
          => /\ approvalCache' = lastSaved
             /\ (fout' # fout /\ fout'.op = "getApprovalData") => fout'.result = lastSaved
      ]_vars

\* C30: when a card's handleApprovalToggle(checked) finishes, its isUpdating
\* is false again; its isApproved is checked if the server answered OK and
\* the opposite if the response was not OK or the request failed;
\* onApprovalChange(reviewId, checked) is called exactly when the server
\* answered OK (and the page then holds the review with that flag); and a
\* card never has two approval requests in flight.
C30_ToggleSettles ==
    [][\A id \in CardIds :
          /\ Len(cardRequests'[id]) <= 1
          /\ Len(cardRequests'[id]) < Len(cardRequests[id]) =>
                LET checked == Head(cardRequests[id])
                IN /\ ~cards'[id].isUpdating
                   /\ cardDone'.reviewId = id
                   /\ cardDone'.checked = checked
                   /\ cards'[id].isApproved
                        = (IF cardDone'.outcome = "ok" THEN checked ELSE ~checked)
                   /\ cardDone'.onApprovalChange
                        = (IF cardDone'.outcome = "ok"
                           THEN <<[reviewId |-> id, approved |-> checked]>>
                           ELSE <<>>)
                   /\ dashReviews'
                        = (IF cardDone'.outcome = "ok"
                           THEN ApprovalChanged(dashReviews, id, checked)
                           ELSE dashReviews)
      ]_vars

\* a card's approval was answered OK and the page holds the review as
\* approved, while another card's request is in flight
C30_Witness ==
    /\ cardDone # NoRun
    /\ cardDone.outcome = "ok"
    /\ cardDone.checked
    /\ cards[cardDone.reviewId] = [isApproved |-> TRUE, isUpdating |-> FALSE]
    /\ \E i \in 1..Len(dashReviews) :
          dashReviews[i].id = cardDone.reviewId /\ dashReviews[i].isApprovedForDisplay
    /\ \E id \in CardIds \ {cardDone.reviewId} :
          cards[id].isUpdating /\ Len(cardRequests[id]) = 1

====
